---- MODULE Spec2Model ----
(***************************************************************************)
(* A model of the cooldowns package: the per-bucket admission window       *)
(* (CooldownTimesPer), the limiter and its bucket cache (Cooldown), the    *)
(* event-loop timers that replenish windows, and the persistence layer     *)
(* (get_state / load_from_state).                                          *)
(*                                                                         *)
(* Time is a discrete UTC clock `now`.  A datetime is a record             *)
(* [t, aware]: `aware` tells a timezone-aware value (datetime.now(tz=utc), *)
(* datetime.fromtimestamp(.., tz=utc)) from a naive one                    *)
(* (datetime.utcnow()).  A naive value holds the UTC wall-clock reading;   *)
(* naive.timestamp() reads it as LOCAL time, so the process's UTC offset   *)
(* `tz` is part of the state.                                              *)
(***************************************************************************)
EXTENDS Integers, Sequences, FiniteSets, Bags, TLC

\* ---------------------------------------------------------------- bounds
MaxLimit == 2        \* limits are drawn from 1..MaxLimit
MaxPeriod == 2       \* time periods are drawn from 1..MaxPeriod
MaxTime == 3         \* the clock stops advancing at MaxTime
MaxOrphans == 1      \* windows dropped from the cache with timers pending
MaxSnap == 1         \* at most MaxSnap calls of get_state

Lims == {1}                       \* the Cooldown under observation
TzOffsets == {-1, 0, 1}           \* local time = UTC + tz

\* ------------------------------------------------------------ bucket keys
\* _HashableArguments(*args, **kwargs); kwargs is the insertion-ordered
\* sequence of <<name, value>> pairs.  NoneKey is Python's None, the value
\* of Cooldown._last_bucket before the first __call__.
NoneKey == [none |-> TRUE, args |-> <<>>, kwargs |-> <<>>]

_HashableArguments(args, kwargs) ==
    [none |-> FALSE, args |-> args, kwargs |-> kwargs]

\* The calls the model makes: positional and named arguments.
Calls == { [args |-> <<1>>, kwargs |-> <<>>] }

\* Cooldown.get_bucket under CooldownBucket.all
get_bucket(c) == _HashableArguments(c.args, c.kwargs)

Keys == {NoneKey} \cup { get_bucket(c) : c \in Calls }

\* ------------------------------------------------------------- datetimes
Naive(t) == [t |-> t, aware |-> FALSE]
Aware(t) == [t |-> t, aware |-> TRUE]

VARIABLES
    now,      \* UTC clock (wall clock and event-loop clock)
    tz,       \* UTC offset of the process's local time zone
    cd,       \* cd[l]: the fields of Cooldown l; _cache maps keys to windows
    orphans,  \* bag of windows no cache holds but whose timers are pending
    saved,    \* <<>> or <<state>>: the State returned by get_state and
              \* not loaded yet (a State is loaded at most once)
    nsnap,    \* number of get_state calls so far
    last,     \* outcome of the last operation
    refs,     \* utils.shared_cooldown_refs: cooldown id -> limiter
    sites,    \* the decorated functions, each with its stack of wrappers
    running   \* bag of the calls of decorated functions in progress

vars == <<now, tz, cd, orphans, saved, nsnap, last, refs, sites, running>>

\* The state of the program around the limiters: registry, decorated
\* functions and their calls.
appvars == <<refs, sites, running>>

\* ------------------------------------------------------------- helpers
\* datetime.datetime.utcnow()
utcnow == Naive(now)

\* date_util._utc_now
_utc_now == Aware(now)

\* naive.timestamp() reads the value as local time; aware.timestamp() is
\* the instant itself.
timestamp(d) == IF d.aware THEN d.t ELSE d.t - tz

\* date_util._utc_from_timestamp
_utc_from_timestamp(epoch) == Aware(epoch)

\* A window object: the fields of CooldownTimesPer, and _timers, the due
\* times of the loop.call_later(.., self._reset_invoke) handles that have
\* not run yet, in the order the loop will run them.
\* CooldownTimesPer.__init__
NewWindow(limit, time_period) ==
    [limit |-> limit, time_period |-> time_period,
     current |-> limit, _next_reset |-> <<>>, _timers |-> <<>>]

\* loop.call_later: the handle is queued by due time, after those due at
\* the same time.
call_later(ts, due) ==
    LET n == Cardinality({ i \in DOMAIN ts : ts[i] <= due })
    IN  SubSeq(ts, 1, n) \o <<due>> \o SubSeq(ts, n + 1, Len(ts))

\* CooldownTimesPer.next_reset: peek the head, <<>> stands for None
next_reset(w) == IF w._next_reset = <<>> THEN <<>> ELSE <<Head(w._next_reset)>>

\* CooldownTimesPer.fully_reset_at: peek the tail
fully_reset_at(w) ==
    IF w._next_reset = <<>> THEN <<>>
    ELSE <<w._next_reset[Len(w._next_reset)]>>

\* CooldownTimesPer.has_cooldown
has_cooldown(w) == w.current # w.limit

\* The outcome of an operation as its caller sees it: the exception raised
\* (or "granted") and, for CallableOnCooldown, resets_at and retry_after.
\* For an admission attempt, `key` is its bucket and `n` its position in
\* the run of attempts made back to back on that bucket since the attempt
\* that created the window (counted up to limit + 1; 0 outside such a
\* run).  For load_from_state, `n` is the number of recorded epochs it
\* found expired.
NoOutcome ==
    [res |-> "none", resets_at |-> <<>>, retry_after |-> 0,
     key |-> NoneKey, n |-> 0]

\* Cooldown.__init__ with every argument given.  `class` tells a
\* StaticCooldown, which passes through the same __init__, from a
\* Cooldown; _bucket names the bucket strategy and check the predicate.
Cooldown__init__(class, limit, time_period, bucket, id, check) ==
    [class |-> class, limit |-> limit, time_period |-> time_period,
     cooldown_id |-> id, check |-> check, _bucket |-> bucket,
     pending_reset |-> FALSE, _last_bucket |-> NoneKey,
     _cache |-> [k \in {} |-> 0], _clean_task |-> FALSE,
     _keep_buckets_clear |-> 0]

\* Cooldown(limit, time_period, cooldown_id=id): bucket defaults to
\* CooldownBucket.all and check to default_check
NewCooldown(limit, time_period, id) ==
    Cooldown__init__("Cooldown", limit, time_period, "all", id,
                     "default_check")

Init ==
    /\ now = 0
    /\ tz \in TzOffsets
    /\ \E lim \in 1..MaxLimit, p \in 1..MaxPeriod :
          cd = [l \in Lims |-> NewCooldown(lim, p, l)]
    /\ orphans = EmptyBag
    /\ saved = <<>>
    /\ nsnap = 0
    /\ last = NoOutcome
    /\ refs = [l \in Lims |-> l]
    /\ sites = <<>>
    /\ running = EmptyBag

\* Windows that leave the cache: those with timers pending stay alive as
\* orphans, the others are garbage.
Orphaned(ws) == [w \in { x \in BagToSet(ws) : x._timers # <<>> } |-> ws[w]]

\* The windows of cache `old` that cache `new` no longer holds.
RECURSIVE Dropped(_, _, _)
Dropped(old, new, ks) ==
    IF ks = {} THEN EmptyBag
    ELSE LET k == CHOOSE x \in ks : TRUE
         IN  (IF k \in DOMAIN new /\ new[k] = old[k]
              THEN EmptyBag ELSE SetToBag({old[k]}))
             (+) Dropped(old, new, ks \ {k})

\* ------------------------------------------------------------- admission
\* CallableOnCooldown.retry_after, evaluated by CallableOnCooldown.__init__
\* while it builds the message: utcnow() (naive) is compared with
\* resets_at.  Comparing a naive with an aware datetime raises TypeError.
RetryRaises(resets_at) == resets_at # <<>> /\ resets_at[1].aware # utcnow.aware

retry_after(resets_at) ==
    IF utcnow.t > resets_at[1].t THEN 0 ELSE resets_at[1].t - utcnow.t

\* raise CallableOnCooldown(func, cooldown, resets_at) as the caller sees it
CallableOnCooldown(resets_at) ==
    IF RetryRaises(resets_at)
    THEN [NoOutcome EXCEPT !.res = "TypeError"]
    ELSE [NoOutcome EXCEPT !.res = "CallableOnCooldown",
                           !.resets_at = resets_at,
                           !.retry_after = retry_after(resets_at)]

HasWindow(l, k) == k \in DOMAIN cd[l]._cache

\* Cooldown._get_cooldown_for_bucket (raise_on_create = False)
_get_cooldown_for_bucket(l, k) ==
    IF HasWindow(l, k) THEN cd[l]._cache[k]
    ELSE NewWindow(cd[l].limit, cd[l].time_period)

\* Cooldown.remaining_calls for an already derived key
remaining_calls(l, k) ==
    IF HasWindow(l, k) THEN cd[l]._cache[k].current ELSE cd[l].limit

\* Granted without `self.current -= 1`
Granted_NoDecrement(w) ==
    [w EXCEPT !._next_reset = Append(w._next_reset,
                                     Naive(utcnow.t + w.time_period)),
              !._timers = call_later(w._timers, now + w.time_period)]

\* The position of an attempt on bucket k in its back-to-back run.
Position(l, k, limit) ==
    IF ~HasWindow(l, k) THEN 1
    ELSE IF /\ last.res \in {"granted", "CallableOnCooldown", "TypeError"}
            /\ last.n >= 1 /\ last.key = k
         THEN (IF last.n > limit THEN last.n ELSE last.n + 1)
         ELSE 0

\* The test CooldownTimesPer.__aenter__ makes first, never passing
Exhausted_Never(w) == FALSE

\* The test CooldownTimesPer.__aenter__ makes first: `self.current == 0`
Exhausted(w) == w.current = 0

\* CooldownTimesPer.__aenter__ on a window with capacity left
Granted(w) ==
    [w EXCEPT !.current = w.current - 1,
              !._next_reset = Append(w._next_reset,
                                     Naive(utcnow.t + w.time_period)),
              !._timers = call_later(w._timers, now + w.time_period)]

\* CooldownTimesPer.__aexit__ handing the slot back
CooldownTimesPer__aexit___Release(w) ==
    [w EXCEPT !.current = w.current + 1]

\* CooldownTimesPer.__aexit__: its body is `...`
CooldownTimesPer__aexit__(w) == w

\* Cooldown.__aenter__ starting a sweep task at every admission attempt
create_task_Always(c) ==
    [c EXCEPT !._clean_task = TRUE,
              !._keep_buckets_clear = c._keep_buckets_clear + 1]

\* The head of Cooldown.__aenter__: `if not self._clean_task:
\* self._clean_task = asyncio.create_task(self._keep_buckets_clear())`.
\* _keep_buckets_clear counts the sweep tasks started for the limiter.
create_task(c) ==
    IF c._clean_task THEN c
    ELSE [c EXCEPT !._clean_task = TRUE,
                   !._keep_buckets_clear = c._keep_buckets_clear + 1]

\* Cooldown.__aenter__ entered with _last_bucket = k: start the sweep
\* task, look the window up (creating it on a miss) and run
\* CooldownTimesPer.__aenter__ on it; `async with bucket: return self`
\* leaves the window's scope at once.
Cooldown__aenter__(l, k) ==
    LET w0 == _get_cooldown_for_bucket(l, k)
        w1 == IF Exhausted(w0) THEN w0
              ELSE CooldownTimesPer__aexit__(Granted(w0))
    IN  /\ cd' = [cd EXCEPT
                     ![l] = [create_task(cd[l]) EXCEPT
                               !._cache =
                                  [x \in DOMAIN cd[l]._cache \cup {k} |->
                                     IF x = k THEN w1 ELSE cd[l]._cache[x]],
                               !._last_bucket = k]]
        /\ last' = [(IF Exhausted(w0)
                      THEN CallableOnCooldown(next_reset(w0))
                      ELSE [NoOutcome EXCEPT !.res = "granted"])
                        EXCEPT !.key = k, !.n = Position(l, k, w0.limit)]

\* An admission attempt made on the limiter directly, outside any
\* decorated function.
Enter(l, k) ==
    /\ Cooldown__aenter__(l, k)
    /\ UNCHANGED <<now, tz, orphans, saved, nsnap>>
    /\ UNCHANGED appvars

\* async with cooldown(*args, **kwargs): Cooldown.__call__ stores the key
\* in _last_bucket and __aenter__ runs without suspension in between.
Admit(l, c) == Enter(l, get_bucket(c))

\* async with cooldown: __aenter__ without a preceding __call__; the key is
\* whatever _last_bucket holds (None on a new Cooldown).
EnterLast(l) == Enter(l, cd[l]._last_bucket)

\* ----------------------------------------------------------------- timers
\* _reset_invoke without the `self.current == self.limit` guard
_reset_invoke_NoGuard(w) ==
    IF w.current < 0 THEN w
    ELSE [w EXCEPT !.current = w.current + 1,
                   !._next_reset = IF w._next_reset = <<>> THEN <<>>
                                   ELSE Tail(w._next_reset)]

\* _reset_invoke handing every slot back at once, as at the boundary of a
\* fixed window
_reset_invoke_Boundary(w) ==
    IF w.current < 0 THEN w
    ELSE IF w.current = w.limit THEN w
    ELSE [w EXCEPT !.current = w.limit, !._next_reset = <<>>]

\* CooldownTimesPer._reset_invoke.  get_nowait() on an empty queue raises
\* after current has been incremented.
_reset_invoke(w) ==
    IF w.current < 0 THEN w
    ELSE IF w.current = w.limit THEN w
    ELSE [w EXCEPT !.current = w.current + 1,
                   !._next_reset = IF w._next_reset = <<>> THEN <<>>
                                   ELSE Tail(w._next_reset)]

TimerDue(w) == w._timers # <<>> /\ Head(w._timers) <= now

\* The event loop runs the next handle of a window: the handle is gone
\* and _reset_invoke has run.
RunTimer(w) == [_reset_invoke(w) EXCEPT !._timers = Tail(w._timers)]

\* A timer of a cached window fires.
FireCached(l, k) ==
    /\ HasWindow(l, k)
    /\ TimerDue(cd[l]._cache[k])
    /\ cd' = [cd EXCEPT ![l]._cache[k] = RunTimer(cd[l]._cache[k])]
    /\ last' = NoOutcome
    /\ UNCHANGED <<now, tz, orphans, saved, nsnap>>
    /\ UNCHANGED appvars

\* A timer of an evicted window handing its slot to the window that is
\* cached under the limiter's last key
FireOrphan_Cached(o) ==
    /\ BagIn(o, orphans)
    /\ TimerDue(o)
    /\ orphans' = (orphans (-) SetToBag({o}))
                      (+) Orphaned(SetToBag({RunTimer(o)}))
    /\ cd' = [l \in DOMAIN cd |->
                IF cd[l]._last_bucket \in DOMAIN cd[l]._cache
                THEN [cd[l] EXCEPT !._cache[cd[l]._last_bucket] =
                                       _reset_invoke(@)]
                ELSE cd[l]]
    /\ last' = NoOutcome
    /\ UNCHANGED <<now, tz, saved, nsnap>>
    /\ UNCHANGED appvars

\* A timer of a window that is no longer cached fires.
FireOrphan(o) ==
    /\ BagIn(o, orphans)
    /\ TimerDue(o)
    /\ orphans' = (orphans (-) SetToBag({o}))
                      (+) Orphaned(SetToBag({RunTimer(o)}))
    /\ last' = NoOutcome
    /\ UNCHANGED <<now, tz, cd, saved, nsnap>>
    /\ UNCHANGED appvars

\* Time passes once the loop has run every handle that is due.
Tick ==
    /\ now < MaxTime
    /\ \A l \in DOMAIN cd : \A k \in DOMAIN cd[l]._cache :
          ~TimerDue(cd[l]._cache[k])
    /\ \A o \in BagToSet(orphans) : ~TimerDue(o)
    /\ now' = now + 1
    /\ last' = NoOutcome
    /\ UNCHANGED <<tz, cd, orphans, saved, nsnap>>
    /\ UNCHANGED appvars

\* ------------------------------------------------------------- eviction
\* The try block of clear with `if _bucket.has_cooldown or force_evict`
Evict_Tracking(cache, k, force_evict) ==
    IF k \in DOMAIN cache /\ (has_cooldown(cache[k]) \/ force_evict)
    THEN [x \in DOMAIN cache \ {k} |-> cache[x]]
    ELSE cache

\* Cooldown.clear(bucket, force_evict) with a bucket: the try block.
Evict(cache, k, force_evict) ==
    IF k \in DOMAIN cache /\ (~has_cooldown(cache[k]) \/ force_evict)
    THEN [x \in DOMAIN cache \ {k} |-> cache[x]]
    ELSE cache

\* The loop of clear passing force_evict=False on
EvictAll_Unforced(cache, force_evict) ==
    LET keep == { k \in DOMAIN cache :
                    /\ k # NoneKey
                    /\ Evict(cache, k, FALSE) = cache }
    IN  [x \in keep |-> cache[x]]

\* Cooldown.clear() without a bucket: the loop over list(self._cache.keys()).
\* A None key is popped whatever its window holds; every other key goes
\* through clear(bucket_key, force_evict=force_evict).  The try block that
\* follows looks up None, which the loop has already popped.
EvictAll(cache, force_evict) ==
    LET keep == { k \in DOMAIN cache :
                    /\ k # NoneKey
                    /\ Evict(cache, k, force_evict) = cache }
    IN  [x \in keep |-> cache[x]]

\* The cache of limiter l becomes `cache`; what it drops is orphaned.
SetCache(l, c, cache) ==
    LET gone == Orphaned(Dropped(cd[l]._cache, cache, DOMAIN cd[l]._cache))
    IN  /\ BagCardinality(orphans (+) gone) <= MaxOrphans
        /\ orphans' = orphans (+) gone
        /\ cd' = [cd EXCEPT ![l] = [c EXCEPT !._cache = cache]]

\* cooldown.clear(bucket, force_evict=...) called for one key.  A None
\* bucket is the global clear below.
Clear(l, k, force_evict) ==
    /\ k # NoneKey
    /\ SetCache(l, cd[l], Evict(cd[l]._cache, k, force_evict))
    /\ last' = NoOutcome
    /\ UNCHANGED <<now, tz, saved, nsnap>>
    /\ UNCHANGED appvars

\* cooldown.clear(force_evict=...) called globally.
ClearAll(l, force_evict) ==
    /\ SetCache(l, cd[l], EvictAll(cd[l]._cache, force_evict))
    /\ last' = NoOutcome
    /\ UNCHANGED <<now, tz, saved, nsnap>>
    /\ UNCHANGED appvars

\* One round of Cooldown._keep_buckets_clear: the task exists once
\* __aenter__ has created it, and each wake-up runs self.clear().
Sweep(l) ==
    /\ cd[l]._clean_task
    /\ SetCache(l, cd[l], EvictAll(cd[l]._cache, FALSE))
    /\ last' = NoOutcome
    /\ UNCHANGED <<now, tz, saved, nsnap>>
    /\ UNCHANGED appvars

\* ----------------------------------------------------------- persistence
\* pickle.dumps(k, 0).decode(): None is the opcode N; an object is
\* rebuilt by copy_reg._reconstructor from its class and its __dict__.
pickle_dumps(k) ==
    IF k.none THEN <<"N", <<>>, <<>>>> ELSE <<"R", k.args, k.kwargs>>

\* pickle.loads(s.encode())
pickle_loads(s) ==
    IF s[1] = "N" THEN NoneKey ELSE _HashableArguments(s[2], s[3])

\* The CTPState of one window: _pickle_cooldown drains the queue into a
\* list of item.timestamp().
CTPState(w) ==
    [limit |-> w.limit, time_period |-> w.time_period,
     current |-> w.current,
     next_reset |-> [i \in DOMAIN w._next_reset |->
                        timestamp(w._next_reset[i])]]

\* persistence._pickle_cooldown: the State it returns
_pickle_cooldown(c) ==
    [limit |-> c.limit, time_period |-> c.time_period,
     pending_reset |-> c.pending_reset, cooldown_id |-> c.cooldown_id,
     cache |-> [s \in { pickle_dumps(k) : k \in DOMAIN c._cache } |->
                  CTPState(c._cache[pickle_loads(s)])]]

\* _pickle_cooldown leaving the drained queue empty
new_queue_Drained(w) == <<>>

\* The queue _pickle_cooldown leaves in the window (v._next_reset =
\* new_queue): the drained items, put back in the order they were taken.
new_queue(w) == [i \in DOMAIN w._next_reset |-> w._next_reset[i]]

\* Cooldown.get_state
GetState(l) ==
    /\ nsnap < MaxSnap
    /\ nsnap' = nsnap + 1
    /\ saved' = << _pickle_cooldown(cd[l]) >>
    /\ cd' = [cd EXCEPT ![l]._cache =
                 [k \in DOMAIN cd[l]._cache |->
                    [cd[l]._cache[k] EXCEPT
                        !._next_reset = new_queue(cd[l]._cache[k])]]]
    /\ last' = NoOutcome
    /\ UNCHANGED <<now, tz, orphans>>
    /\ UNCHANGED appvars

\* _check_expired finding no epoch expired
_check_expired_Never(time) == FALSE

\* persistence._check_expired
_check_expired(time) == _utc_now.t > time.t

\* The epochs of a CTPState that _unpickle_cooldown puts back on the queue
Unexpired(v) ==
    SelectSeq(v.next_reset,
              LAMBDA epoch : ~_check_expired(_utc_from_timestamp(epoch)))

RECURSIVE ScheduleAll(_, _)
ScheduleAll(ts, dues) ==
    IF dues = <<>> THEN ts
    ELSE ScheduleAll(call_later(ts, Head(dues)), Tail(dues))

\* RestoredWindow without `cooldown_times_per.current += 1` for the
\* expired epochs
RestoredWindow_NoCredit(v) ==
    [NewWindow(v.limit, v.time_period) EXCEPT
        !.current = v.current,
        !._next_reset = [i \in DOMAIN Unexpired(v) |->
                            _utc_from_timestamp(Unexpired(v)[i])],
        !._timers = ScheduleAll(<<>>,
                        [i \in DOMAIN Unexpired(v) |->
                            now + (_utc_from_timestamp(Unexpired(v)[i]).t
                                   - _utc_now.t)])]

\* RestoredWindow without `cooldown_times_per.current = v["current"]`:
\* current starts at limit, as __init__ leaves it
RestoredWindow_NoCurrent(v) ==
    [NewWindow(v.limit, v.time_period) EXCEPT
        !.current = v.limit + (Len(v.next_reset) - Len(Unexpired(v))),
        !._next_reset = [i \in DOMAIN Unexpired(v) |->
                            _utc_from_timestamp(Unexpired(v)[i])],
        !._timers = ScheduleAll(<<>>,
                        [i \in DOMAIN Unexpired(v) |->
                            now + (_utc_from_timestamp(Unexpired(v)[i]).t
                                   - _utc_now.t)])]

\* The window _unpickle_cooldown builds from one CTPState v: every epoch
\* in the past adds one to current; every other epoch is put on the queue
\* and gets a call_later((epoch_time - current_time).total_seconds(), ..).
RestoredWindow(v) ==
    [NewWindow(v.limit, v.time_period) EXCEPT
        !.current = v.current + (Len(v.next_reset) - Len(Unexpired(v))),
        !._next_reset = [i \in DOMAIN Unexpired(v) |->
                            _utc_from_timestamp(Unexpired(v)[i])],
        !._timers = ScheduleAll(<<>>,
                        [i \in DOMAIN Unexpired(v) |->
                            now + (_utc_from_timestamp(Unexpired(v)[i]).t
                                   - _utc_now.t)])]

\* The number of epochs of the CTPStates under keys ss that
\* _unpickle_cooldown finds expired
RECURSIVE Expired(_, _)
Expired(state, ss) ==
    IF ss = {} THEN 0
    ELSE LET s == CHOOSE x \in ss : TRUE
             v == state.cache[s]
         IN  (Len(v.next_reset) - Len(Unexpired(v)))
                + Expired(state, ss \ {s})

\* What load_from_state leaves to its caller
Loaded(state) ==
    [NoOutcome EXCEPT !.res = "loaded",
                      !.n = Expired(state, DOMAIN state.cache)]

\* _unpickle_cooldown updating the cache it finds instead of replacing it
_unpickle_cooldown_Update(l, c, state) ==
    LET restored == { pickle_loads(s) : s \in DOMAIN state.cache }
    IN  SetCache(l, [c EXCEPT !.limit = state.limit,
                              !.cooldown_id = state.cooldown_id,
                              !.time_period = state.time_period,
                              !.pending_reset = state.pending_reset],
                 [k \in restored \cup DOMAIN c._cache |->
                     IF k \in restored
                     THEN RestoredWindow(state.cache[pickle_dumps(k)])
                     ELSE c._cache[k]])

\* persistence._unpickle_cooldown applied to the Cooldown c
_unpickle_cooldown(l, c, state) ==
    SetCache(l, [c EXCEPT !.limit = state.limit,
                          !.cooldown_id = state.cooldown_id,
                          !.time_period = state.time_period,
                          !.pending_reset = state.pending_reset],
             [k \in { pickle_loads(s) : s \in DOMAIN state.cache } |->
                 RestoredWindow(state.cache[pickle_dumps(k)])])

\* cooldown.load_from_state(state) on the limiter under observation
LoadFromState(l) ==
    /\ saved # <<>>
    /\ _unpickle_cooldown(l, cd[l], saved[1])
    /\ last' = Loaded(saved[1])
    /\ saved' = <<>>
    /\ UNCHANGED <<now, tz, nsnap>>
    /\ UNCHANGED appvars

\* fresh = Cooldown(...); fresh.load_from_state(state): the state is loaded
\* into a newly constructed limiter, which takes the place of the one under
\* observation.  load_from_state overwrites the constructor's limit,
\* time_period and cooldown_id, so their values do not matter.  The windows
\* of the old limiter stay with the event loop as long as they have timers.
LoadIntoFresh(l) ==
    /\ saved # <<>>
    /\ _unpickle_cooldown(l, NewCooldown(1, 1, l), saved[1])
    /\ last' = Loaded(saved[1])
    /\ saved' = <<>>
    /\ UNCHANGED <<now, tz, nsnap>>
    /\ UNCHANGED appvars

Next ==
    \/ \E l \in Lims, c \in Calls : Admit(l, c)
    \/ \E l \in Lims : EnterLast(l)
    \/ \E l \in Lims, k \in Keys : FireCached(l, k)
    \/ \E o \in BagToSet(orphans) : FireOrphan(o)
    \/ Tick
    \/ \E l \in Lims, k \in Keys, f \in BOOLEAN : Clear(l, k, f)
    \/ \E l \in Lims, f \in BOOLEAN : ClearAll(l, f)
    \/ \E l \in Lims : Sweep(l)
    \/ \E l \in Lims : GetState(l)
    \/ \E l \in Lims : LoadFromState(l)
    \/ \E l \in Lims : LoadIntoFresh(l)

Spec == Init /\ [][Next]_vars

\* ============================================================ application
\* The code around the limiters: the registry utils.shared_cooldown_refs,
\* the decorators cooldown and shared_cooldown, the define_shared_*
\* functions, and the calls of decorated functions.  Limiter objects are
\* numbered in the order they are constructed; cd maps the numbers to the
\* objects.
MaxObjs == 2         \* limiter objects constructed
MaxSites == 2        \* decorated functions
MaxLayers == 2       \* wrappers stacked on one function
MaxRunning == 1      \* calls of decorated functions in progress
MaxAppTime == 1      \* the clock of the application stops at MaxAppTime
MaxEvicted == 2       \* evicted windows with timers pending, over all limiters
MaxRacing == 2       \* calls of one decorated function in progress at once
MaxTriggers == 3     \* TriggerCooldown objects constructed without ids
GeneratedRange == 2  \* the ids the loops of TriggerCooldown.__init__ try

AppLimit == 1                     \* limit and period every limiter of the
AppPeriod == 1                    \* application is constructed with
AppIds == {1}                     \* cooldown ids; 0 is a falsy id (None)
Buckets == {"all", "args", "kwargs", "first_arg"}
Checks == {"default_check", "first_is_1"}

\* The calls made to decorated functions: positional values and named
\* values in the order they are written at the call site.
AppCalls ==
    { [args |-> <<1>>, kwargs |-> <<>>],
      [args |-> <<1, 2>>, kwargs |-> <<>>],
      [args |-> <<2, 1>>, kwargs |-> <<>>],
      [args |-> <<1>>, kwargs |-> << <<"a", 2>>, <<"b", 3>> >>],
      [args |-> <<1>>, kwargs |-> << <<"b", 3>>, <<"a", 2>> >>] }

\* CooldownBucket.process, and the process of the custom bucket
\* CustomBucket.first_arg (return args[0])
process(bucket, c) ==
    CASE bucket = "all"    -> [args |-> c.args, kwargs |-> c.kwargs]
      [] bucket = "args"   -> [args |-> c.args, kwargs |-> <<>>]
      [] bucket = "kwargs" -> [args |-> <<>>, kwargs |-> c.kwargs]
      [] OTHER             -> [args |-> <<c.args[1]>>, kwargs |-> <<>>]

\* Cooldown.get_bucket for the limiter's strategy: the processed data is
\* wrapped in _HashableArguments (a custom strategy's value becomes the
\* single positional value).
get_bucket_of(bucket, c) ==
    _HashableArguments(process(bucket, c).args, process(bucket, c).kwargs)

\* _HashableArguments.__eq__: positional values compared as tuples, named
\* values as dicts
HashableArguments__eq__(a, b) ==
    /\ ~a.none /\ ~b.none
    /\ a.args = b.args
    /\ { a.kwargs[i] : i \in DOMAIN a.kwargs }
          = { b.kwargs[i] : i \in DOMAIN b.kwargs }

\* _HashableArguments.__hash__: the value handed to hash().  Positional
\* values and (name, value) pairs are listed in order, named values in
\* the dict's insertion order; hash() of equal tuples is equal and hash()
\* of different tuples is taken to differ.
HashableArguments__hash__(a) ==
    IF a.args = <<>> /\ a.kwargs = <<>> THEN << <<"pi", 0>> >>
    ELSE [i \in DOMAIN a.args |-> <<"", a.args[i]>>] \o a.kwargs

\* The entries a dict lookup of key k can return: same hash, then __eq__
dict_find(cache, k) ==
    { e \in DOMAIN cache :
        /\ HashableArguments__hash__(e) = HashableArguments__hash__(k)
        /\ HashableArguments__eq__(e, k) }

\* The check predicates: default_check, and the check of the tests
\* (lambda *args, **kwargs: args[0] == 1)
check(name, c) == IF name = "default_check" THEN TRUE ELSE c.args[1] = 1

NextObj == Cardinality(DOMAIN cd) + 1

\* The heap after a limiter has been constructed
Allocate(c) == [l \in DOMAIN cd \cup {NextObj} |->
                  IF l = NextObj THEN c ELSE cd[l]]

\* utils.shared_cooldown_refs[id] = limiter
Bind(id, l) == [i \in DOMAIN refs \cup {id} |-> IF i = id THEN l ELSE refs[i]]

\* The registration at the end of Cooldown.__init__: `if cooldown_id:`
Registered(id) == IF id # 0 THEN Bind(id, NextObj) ELSE refs

\* Cooldown(AppLimit, AppPeriod, bucket, cooldown_id=id) called by the
\* program
Construct(id, bucket) ==
    /\ NextObj <= MaxObjs
    /\ cd' = Allocate(Cooldown__init__("Cooldown", AppLimit, AppPeriod,
                                       bucket, id, "default_check"))
    /\ refs' = Registered(id)
    /\ last' = [NoOutcome EXCEPT !.res = "constructed"]
    /\ UNCHANGED <<now, tz, orphans, saved, nsnap, sites, running>>

\* utils.define_shared_cooldown without the `in shared_cooldown_refs` test
define_shared_NoTest(class, id, bucket, chk) ==
    /\ NextObj <= MaxObjs
    /\ cd' = Allocate(Cooldown__init__(class, AppLimit,
                         IF class = "Cooldown" THEN AppPeriod ELSE 0,
                         bucket, id, chk))
    /\ refs' = Bind(id, NextObj)
    /\ last' = [NoOutcome EXCEPT !.res = "defined"]

\* utils.define_shared_cooldown (class "Cooldown") and
\* utils.define_shared_static_cooldown (class "StaticCooldown", which
\* passes time_period=0 to Cooldown.__init__)
define_shared(class, id, bucket, chk) ==
    IF id \in DOMAIN refs
    THEN /\ last' = [NoOutcome EXCEPT !.res = "CooldownAlreadyExists"]
         /\ UNCHANGED <<cd, refs>>
    ELSE /\ NextObj <= MaxObjs
         /\ cd' = Allocate(Cooldown__init__(class, AppLimit,
                              IF class = "Cooldown" THEN AppPeriod ELSE 0,
                              bucket, id, chk))
         /\ refs' = Bind(id, NextObj)
         /\ last' = [NoOutcome EXCEPT !.res = "defined"]

Define(class, id, bucket, chk) ==
    /\ define_shared(class, id, bucket, chk)
    /\ UNCHANGED <<now, tz, orphans, saved, nsnap, sites, running>>

\* A decorated function is the stack of its wrappers, outermost first.
\* A wrapper holds its limiter and the check its `inner` evaluates: the
\* decorator's check argument for cooldown, the limiter's own check
\* (_cooldown.check) for shared_cooldown, whose id it was made for is
\* `shared` (0 for cooldown).
Wrap(s, layer) ==
    IF s = Len(sites) + 1
    THEN Append(sites, [wrappers |-> <<layer>>])
    ELSE [sites EXCEPT ![s].wrappers = <<layer>> \o @]

CanWrap(s) ==
    /\ s \in 1..(Len(sites) + 1)
    /\ s <= MaxSites
    /\ s <= Len(sites) => Len(sites[s].wrappers) < MaxLayers

\* @cooldown(AppLimit, AppPeriod, bucket, check, cooldown_id=id) applied
\* to a new function (s = Len(sites) + 1) or on top of the wrappers of
\* function s.  The id is registered by Cooldown.__init__ and again by
\* the decorator, both under `if cooldown_id:`.
Decorate(s, id, bucket, chk) ==
    /\ CanWrap(s)
    /\ NextObj <= MaxObjs
    /\ cd' = Allocate(Cooldown__init__("Cooldown", AppLimit, AppPeriod,
                                       bucket, id, "default_check"))
    /\ refs' = Registered(id)
    /\ sites' = Wrap(s, [lim |-> NextObj, check |-> chk, shared |-> 0])
    /\ last' = [NoOutcome EXCEPT !.res = "wrapped"]
    /\ UNCHANGED <<now, tz, orphans, saved, nsnap, running>>

\* @shared_cooldown(id): the limiter is looked up once, when the function
\* is wrapped.  Functions are wrapped around limiters of class Cooldown
\* only.
DecorateShared(s, id) ==
    /\ CanWrap(s)
    /\ IF id \notin DOMAIN refs
       THEN /\ last' = [NoOutcome EXCEPT !.res = "NonExistent"]
            /\ UNCHANGED sites
       ELSE /\ cd[refs[id]].class = "Cooldown"
            /\ sites' = Wrap(s, [lim |-> refs[id],
                                 check |-> "_cooldown.check",
                                 shared |-> id])
            /\ last' = [NoOutcome EXCEPT !.res = "wrapped"]
    /\ UNCHANGED <<now, tz, cd, orphans, saved, nsnap, refs, running>>

\* A call of decorated function s: it carries the wrappers the function
\* had when it was called, the wrapper it has reached (pc; past the last
\* one the function body runs) and the limiters that admitted it.
Call(s, c) ==
    /\ s \in 1..Len(sites)
    /\ BagCardinality(running) < MaxRunning
    /\ running' = running (+) SetToBag({[wrappers |-> sites[s].wrappers,
                                         pc |-> 1, call |-> c,
                                         held |-> <<>>]})
    /\ last' = [NoOutcome EXCEPT !.res = "called"]
    /\ UNCHANGED <<now, tz, cd, orphans, saved, nsnap, refs, sites>>

InBody(r) == r.pc > Len(r.wrappers)

\* The check wrapper number i of call r evaluates
CheckOf(r, i) ==
    IF r.wrappers[i].check = "_cooldown.check"
    THEN cd[r.wrappers[i].lim].check
    ELSE r.wrappers[i].check

\* `inner` admitting every call, whatever its check returns
use_cooldown_Always(r) == TRUE

\* use_cooldown = await maybe_coro(check, *args, **kwargs) in `inner` of
\* the wrapper call r has reached
use_cooldown(r) == check(CheckOf(r, r.pc), r.call)

\* `inner` handing back, when a limiter rejects the call, the slot every
\* limiter further out had granted it
Step_Refund(r) ==
    LET w == r.wrappers[r.pc]
        on == [r EXCEPT !.pc = r.pc + 1]
        k == get_bucket_of(cd[w.lim]._bucket, r.call)
        w0 == _get_cooldown_for_bucket(w.lim, k)
        Back(l) ==
            LET kl == get_bucket_of(cd[l]._bucket, r.call)
            IN  IF kl \in DOMAIN cd[l]._cache
                THEN [cd[l] EXCEPT !._cache[kl].current = @ + 1]
                ELSE cd[l]
    IN  /\ BagIn(r, running)
        /\ ~InBody(r)
        /\ IF ~use_cooldown(r)
           THEN /\ running' = (running (-) SetToBag({r})) (+) SetToBag({on})
                /\ last' = [NoOutcome EXCEPT !.res = "bypassed"]
                /\ UNCHANGED cd
           ELSE IF Exhausted(w0)
           THEN /\ cd' = [l \in DOMAIN cd |->
                            IF \E i \in DOMAIN r.held : r.held[i] = l
                            THEN Back(l)
                            ELSE IF l = w.lim
                            THEN [create_task(cd[l]) EXCEPT !._last_bucket = k]
                            ELSE cd[l]]
                /\ last' = [CallableOnCooldown(next_reset(w0))
                              EXCEPT !.key = k,
                                     !.n = Position(w.lim, k, w0.limit)]
                /\ running' = running (-) SetToBag({r})
           ELSE /\ Cooldown__aenter__(w.lim, k)
                /\ running' =
                      (running (-) SetToBag({r})) (+)
                      SetToBag({[on EXCEPT !.held = Append(r.held, w.lim)]})
        /\ UNCHANGED <<now, tz, orphans, saved, nsnap, refs, sites>>

\* `inner` of the wrapper call r has reached: a falsy check goes straight
\* to the wrapped function; otherwise `async with _cooldown(*args,
\* **kwargs)` admits the call or raises, and what it raises ends the call.
Step(r) ==
    LET w == r.wrappers[r.pc]
        on == [r EXCEPT !.pc = r.pc + 1]
    IN  /\ BagIn(r, running)
        /\ ~InBody(r)
        /\ IF ~use_cooldown(r)
           THEN /\ running' = (running (-) SetToBag({r})) (+) SetToBag({on})
                /\ last' = [NoOutcome EXCEPT !.res = "bypassed"]
                /\ UNCHANGED cd
           ELSE /\ Cooldown__aenter__(w.lim,
                       get_bucket_of(cd[w.lim]._bucket, r.call))
                /\ running' =
                      (running (-) SetToBag({r})) (+)
                      (IF last'.res = "granted"
                       THEN SetToBag({[on EXCEPT
                                         !.held = Append(r.held, w.lim)]})
                       ELSE EmptyBag)
        /\ UNCHANGED <<now, tz, orphans, saved, nsnap, refs, sites>>

\* Cooldown.__aexit__ handing back a slot of the window last entered
Cooldown__aexit___Release(c) ==
    IF c._last_bucket \in DOMAIN c._cache
    THEN [c EXCEPT !._cache[c._last_bucket].current = @ + 1]
    ELSE c

\* Cooldown.__aexit__: its body is `...`
Cooldown__aexit__(c) == c

\* The function body of call r ends, by returning or by raising: the
\* `async with` blocks of the wrappers that admitted the call are left.
Finish(r, how) ==
    /\ BagIn(r, running)
    /\ InBody(r)
    /\ running' = running (-) SetToBag({r})
    /\ cd' = [l \in DOMAIN cd |->
                IF \E i \in DOMAIN r.held : r.held[i] = l
                THEN Cooldown__aexit__(cd[l]) ELSE cd[l]]
    /\ last' = [NoOutcome EXCEPT !.res = how]
    /\ UNCHANGED <<now, tz, orphans, saved, nsnap, refs, sites>>

\* _get_cooldown_for_bucket creating the window whatever raise_on_create
Lookup_Creating(c, k, raise_on_create) ==
    [cache |-> [x \in DOMAIN c._cache \cup {k} |->
                  IF x \in DOMAIN c._cache THEN c._cache[x]
                  ELSE NewWindow(c.limit, c.time_period)],
     found |-> TRUE]

\* Cooldown._get_cooldown_for_bucket(k, raise_on_create=...): the cache it
\* leaves and whether it returns a window (it raises NonExistent
\* otherwise).
Lookup(c, k, raise_on_create) ==
    IF k \in DOMAIN c._cache THEN [cache |-> c._cache, found |-> TRUE]
    ELSE IF raise_on_create THEN [cache |-> c._cache, found |-> FALSE]
    ELSE [cache |-> [x \in DOMAIN c._cache \cup {k} |->
                       IF x \in DOMAIN c._cache THEN c._cache[x]
                       ELSE NewWindow(c.limit, c.time_period)],
          found |-> TRUE]

\* cooldown.remaining_calls(*args, **kwargs)
RemainingCalls(l, c) ==
    LET k == get_bucket_of(cd[l]._bucket, c)
        r == Lookup(cd[l], k, TRUE)
    IN  /\ cd' = [cd EXCEPT ![l]._cache = r.cache]
        /\ last' = [NoOutcome EXCEPT
                      !.res = "remaining_calls", !.key = k,
                      !.n = IF r.found THEN r.cache[k].current
                            ELSE cd[l].limit]
        /\ UNCHANGED <<now, tz, orphans, saved, nsnap>>
        /\ UNCHANGED appvars

\* cooldown.get_cooldown_times_per(cooldown.get_bucket(*args, **kwargs)):
\* the window (n is its current) or None
GetCooldownTimesPer(l, c) ==
    LET k == get_bucket_of(cd[l]._bucket, c)
        r == Lookup(cd[l], k, TRUE)
    IN  /\ cd' = [cd EXCEPT ![l]._cache = r.cache]
        /\ last' = [NoOutcome EXCEPT
                      !.res = IF r.found THEN "CooldownTimesPer" ELSE "None",
                      !.key = k,
                      !.n = IF r.found THEN r.cache[k].current ELSE 0]
        /\ UNCHANGED <<now, tz, orphans, saved, nsnap>>
        /\ UNCHANGED appvars

AppKeys == { get_bucket_of(b, c) : b \in Buckets, c \in AppCalls }

\* ------------------------------------------ specification of the registry
\* The registry and the functions wrapped around registered limiters:
\* limiters are defined, constructed and wrapped at any time, and the
\* wrapped functions are called.  Every limiter uses
\* CooldownBucket.kwargs and no call has named values, so each limiter
\* has one bucket.
WrapBuckets == {"kwargs"}
WrapCalls == { [args |-> <<1>>, kwargs |-> <<>>],
               [args |-> <<2, 1>>, kwargs |-> <<>>] }

InitApp ==
    /\ now = 0
    /\ tz = 0
    /\ cd = [l \in {} |-> 0]
    /\ orphans = EmptyBag
    /\ saved = <<>>
    /\ nsnap = 0
    /\ last = NoOutcome
    /\ refs = [i \in {} |-> 0]
    /\ sites = <<>>
    /\ running = EmptyBag

TickApp == now < MaxAppTime /\ Tick

NextApp ==
    \/ \E i \in AppIds, b \in WrapBuckets : Construct(i, b)
    \/ \E c \in {"Cooldown", "StaticCooldown"}, i \in AppIds,
          b \in WrapBuckets, k \in Checks : Define(c, i, b, k)
    \/ \E s \in 1..MaxSites, i \in AppIds \cup {0}, b \in WrapBuckets,
          k \in Checks : Decorate(s, i, b, k)
    \/ \E s \in 1..MaxSites, i \in AppIds : DecorateShared(s, i)
    \/ \E s \in 1..MaxSites, c \in WrapCalls : Call(s, c)
    \/ \E r \in BagToSet(running) : Step(r)
    \/ \E r \in BagToSet(running), how \in {"returned", "raised"} :
          Finish(r, how)
    \/ \E l \in DOMAIN cd, k \in AppKeys : FireCached(l, k)
    \/ TickApp

SpecApp == InitApp /\ [][NextApp]_vars

\* --------------------------------------------- specification of the calls
\* One function decorated, when its module was imported, with 1 to
\* MaxLayers stacked @cooldown(...) decorators, each with its own limiter
\* (constructed outermost first) and its own check; the program calls
\* the function, takes snapshots of the limiters and loads them back.
StackedWrappers(checks) ==
    [i \in DOMAIN checks |-> [lim |-> i, check |-> checks[i], shared |-> 0]]

InitCalls ==
    /\ now = 0
    /\ tz = 0
    /\ \E n \in 1..MaxLayers : \E checks \in [1..n -> Checks] :
          /\ cd = [l \in 1..n |->
                     Cooldown__init__("Cooldown", AppLimit, AppPeriod,
                                      "kwargs", 0, "default_check")]
          /\ sites = << [wrappers |-> StackedWrappers(checks)] >>
    /\ orphans = EmptyBag
    /\ saved = <<>>
    /\ nsnap = 0
    /\ last = NoOutcome
    /\ refs = [i \in {} |-> 0]
    /\ running = EmptyBag

NextCalls ==
    \/ \E c \in WrapCalls : Call(1, c)
    \/ \E r \in BagToSet(running) : Step(r)
    \/ \E r \in BagToSet(running), how \in {"returned", "raised"} :
          Finish(r, how)
    \/ \E l \in DOMAIN cd, k \in AppKeys : FireCached(l, k)
    \/ \E o \in BagToSet(orphans) : FireOrphan(o)
    \/ Tick
    \/ \E l \in DOMAIN cd : GetState(l)
    \/ \E l \in DOMAIN cd : LoadFromState(l)

SpecCalls == InitCalls /\ [][NextCalls]_vars

\* ---------------------------------------------- specification of the keys
\* One limiter with any of the bucket strategies, entered with every call
\* of AppCalls and asked for its remaining calls and its windows.
InitKeys ==
    /\ now = 0
    /\ tz = 0
    /\ \E b \in Buckets :
          cd = [l \in Lims |->
                  Cooldown__init__("Cooldown", AppLimit, AppPeriod, b, 0,
                                   "default_check")]
    /\ orphans = EmptyBag
    /\ saved = <<>>
    /\ nsnap = 0
    /\ last = NoOutcome
    /\ refs = [i \in {} |-> 0]
    /\ sites = <<>>
    /\ running = EmptyBag

\* async with cooldown(*args, **kwargs) on a limiter of any strategy
AdmitCall(l, c) == Enter(l, get_bucket_of(cd[l]._bucket, c))

NextKeys ==
    \/ \E l \in Lims, c \in AppCalls : AdmitCall(l, c)
    \/ \E l \in Lims, c \in AppCalls : RemainingCalls(l, c)
    \/ \E l \in Lims, c \in AppCalls : GetCooldownTimesPer(l, c)
    \/ \E l \in Lims, k \in AppKeys : FireCached(l, k)
    \/ TickApp

SpecKeys == InitKeys /\ [][NextKeys]_vars

\* ------------------------------------------------------- static windows
\* A day is DayLen clock units long and a datetime.time is a time of day
\* in 0..DayLen-1.  A StaticCooldown is a Cooldown with time_period 0 and
\* the list _reset_times, which its windows (StaticTimesPer) share.
DayLen == 3
StaticLimit == 2
TimesOfDay == 0..(DayLen - 1)
ResetTimes ==
    { <<a>> : a \in TimesOfDay } \cup
    { <<a, b>> : a \in TimesOfDay, b \in TimesOfDay }

\* current.replace(hour=..., minute=..., second=..., microsecond=...)
replace(current, time) == (current \div DayLen) * DayLen + time

\* The loop of next_datetime testing `repl < current`
RECURSIVE roll_Lt(_, _)
roll_Lt(repl, current) ==
    IF repl < current THEN roll_Lt(repl + DayLen, current) ELSE repl

\* The loop of next_datetime: `while repl <= current: repl += 1 day`
RECURSIVE roll(_, _)
roll(repl, current) ==
    IF repl <= current THEN roll(repl + DayLen, current) ELSE repl

\* StaticTimesPer.next_datetime
next_datetime(current, time) == roll(replace(current, time), current)

\* StaticTimesPer.get_next_reset: min over the configured times
get_next_reset(reset_times, current) ==
    LET possible_options ==
           { next_datetime(current, reset_times[i]) :
               i \in DOMAIN reset_times }
    IN  CHOOSE m \in possible_options : \A x \in possible_options : m <= x

\* StaticCooldown.__init__
StaticCooldown__init__(limit, reset_times, bucket, id, chk) ==
    Cooldown__init__("StaticCooldown", limit, 0, bucket, id, chk)
       @@ [_reset_times |-> reset_times]

\* StaticTimesPer.__init__
StaticTimesPer__init__(limit, reset_times) ==
    NewWindow(limit, 0) @@ [_reset_times |-> reset_times]

\* StaticCooldown._get_cooldown_for_bucket (raise_on_create = False)
Static_get_cooldown_for_bucket(l, k) ==
    IF HasWindow(l, k) THEN cd[l]._cache[k]
    ELSE StaticTimesPer__init__(cd[l].limit, cd[l]._reset_times)

\* StaticTimesPer.__aenter__ on a window with capacity left
StaticGranted(w) ==
    LET reset == get_next_reset(w._reset_times, utcnow.t)
    IN  [w EXCEPT !.current = w.current - 1,
                  !._next_reset = Append(w._next_reset, Naive(reset)),
                  !._timers = call_later(w._timers, reset)]

\* `async with bucket` in Cooldown.__aenter__: the __aenter__ that runs is
\* that of the class of the cached object, StaticTimesPer for a window the
\* StaticCooldown created (it holds _reset_times) and CooldownTimesPer for
\* a window _unpickle_cooldown built.
TimesPerGranted(w) ==
    IF "_reset_times" \in DOMAIN w THEN StaticGranted(w) ELSE Granted(w)

\* async with static_cooldown(*args, **kwargs): Cooldown.__aenter__ on a
\* StaticCooldown
StaticAdmit(l, c) ==
    LET k == get_bucket(c)
        w0 == Static_get_cooldown_for_bucket(l, k)
        w1 == IF Exhausted(w0) THEN w0
              ELSE CooldownTimesPer__aexit__(TimesPerGranted(w0))
    IN  /\ cd' = [cd EXCEPT
                     ![l] = [create_task(cd[l]) EXCEPT
                               !._cache =
                                  [x \in DOMAIN cd[l]._cache \cup {k} |->
                                     IF x = k THEN w1 ELSE cd[l]._cache[x]],
                               !._last_bucket = k]]
        /\ last' = [(IF Exhausted(w0)
                      THEN CallableOnCooldown(next_reset(w0))
                      ELSE [NoOutcome EXCEPT !.res = "granted"])
                        EXCEPT !.key = k, !.n = Position(l, k, w0.limit)]
        /\ UNCHANGED <<now, tz, orphans, saved, nsnap>>
        /\ UNCHANGED appvars

InitStatic ==
    /\ now = 0
    /\ tz = 0
    /\ \E reset_times \in ResetTimes :
          cd = [l \in Lims |->
                  StaticCooldown__init__(StaticLimit, reset_times, "all", 0,
                                         "default_check")]
    /\ orphans = EmptyBag
    /\ saved = <<>>
    /\ nsnap = 0
    /\ last = NoOutcome
    /\ refs = [i \in {} |-> 0]
    /\ sites = <<>>
    /\ running = EmptyBag

NextStatic ==
    \/ \E l \in Lims, c \in Calls : StaticAdmit(l, c)
    \/ \E l \in Lims, k \in Keys : FireCached(l, k)
    \/ Tick

SpecStatic == InitStatic /\ [][NextStatic]_vars

\* The static limiter with snapshots: get_state and load_from_state are
\* those of Cooldown, which StaticCooldown inherits.
NextStaticLoad ==
    \/ \E l \in Lims, c \in Calls : StaticAdmit(l, c)
    \/ \E l \in Lims, k \in Keys : FireCached(l, k)
    \/ \E o \in BagToSet(orphans) : FireOrphan(o)
    \/ Tick
    \/ \E l \in Lims : GetState(l)
    \/ \E l \in Lims : LoadFromState(l)

SpecStaticLoad == InitStatic /\ [][NextStaticLoad]_vars

\* ----------------------------------------------- lookups and resets
\* The limiters attached to decorated function s: func._cooldowns, to
\* which every decorator of the stack has appended its limiter
_get_cooldowns_or_raise(s) ==
    { sites[s].wrappers[i].lim : i \in DOMAIN sites[s].wrappers }

\* What the caches newc[l] of the limiters ls no longer hold and the
\* event loop still holds timers of
RECURSIVE GoneFrom(_, _)
GoneFrom(ls, newc) ==
    IF ls = {} THEN EmptyBag
    ELSE LET l == CHOOSE x \in ls : TRUE
         IN  Orphaned(Dropped(cd[l]._cache, newc[l], DOMAIN cd[l]._cache))
                (+) GoneFrom(ls \ {l}, newc)

\* The caches of the limiters become newc
Recache(newc) ==
    /\ BagCardinality(orphans (+) GoneFrom(DOMAIN cd, newc)) <= MaxEvicted
    /\ cd' = [l \in DOMAIN cd |-> [cd[l] EXCEPT !._cache = newc[l]]]
    /\ orphans' = orphans (+) GoneFrom(DOMAIN cd, newc)

\* get_shared_cooldown returning None for an id it does not find
GetSharedCooldown_None(id) ==
    /\ last' = [NoOutcome EXCEPT
                  !.res = IF id \in DOMAIN refs THEN "Cooldown" ELSE "None"]
    /\ UNCHANGED <<now, tz, cd, orphans, saved, nsnap, refs, sites, running>>

\* utils.get_shared_cooldown(id)
GetSharedCooldown(id) ==
    /\ last' = [NoOutcome EXCEPT
                  !.res = IF id \in DOMAIN refs THEN "Cooldown"
                          ELSE "NonExistent"]
    /\ UNCHANGED <<now, tz, cd, orphans, saved, nsnap, refs, sites, running>>

\* utils.reset_cooldown(id)
ResetCooldown(id) ==
    /\ IF id \in DOMAIN refs
       THEN /\ Recache([l \in DOMAIN cd |->
                          IF l = refs[id] THEN EvictAll(cd[l]._cache, TRUE)
                          ELSE cd[l]._cache])
            /\ last' = [NoOutcome EXCEPT !.res = "reset_cooldown"]
       ELSE /\ last' = [NoOutcome EXCEPT !.res = "NonExistent"]
            /\ UNCHANGED <<cd, orphans>>
    /\ UNCHANGED <<now, tz, saved, nsnap, refs, sites, running>>

\* reset_bucket evicting the windows that are not tracking anything
reset_bucket_Unforced(l, c) ==
    LET bucket == get_bucket_of(cd[l]._bucket, c)
    IN  IF Lookup(cd[l], bucket, TRUE).found
        THEN Evict(cd[l]._cache, bucket, FALSE)
        ELSE cd[l]._cache

\* The body of the loop of utils.reset_bucket for limiter l: the cache it
\* leaves
reset_bucket(l, c) ==
    LET bucket == get_bucket_of(cd[l]._bucket, c)
    IN  IF Lookup(cd[l], bucket, TRUE).found
        THEN Evict(cd[l]._cache, bucket, TRUE)
        ELSE cd[l]._cache

\* utils.reset_bucket(func, *args, **kwargs) for decorated function s
ResetBucket(s, c) ==
    /\ s \in DOMAIN sites
    /\ Recache([l \in DOMAIN cd |->
                  IF l \in _get_cooldowns_or_raise(s) THEN reset_bucket(l, c)
                  ELSE cd[l]._cache])
    /\ last' = [NoOutcome EXCEPT !.res = "reset_bucket"]
    /\ UNCHANGED <<now, tz, saved, nsnap, refs, sites, running>>

\* utils.reset_cooldowns(func) for decorated function s
ResetCooldowns(s) ==
    /\ s \in DOMAIN sites
    /\ Recache([l \in DOMAIN cd |->
                  IF l \in _get_cooldowns_or_raise(s)
                  THEN EvictAll(cd[l]._cache, TRUE)
                  ELSE cd[l]._cache])
    /\ last' = [NoOutcome EXCEPT !.res = "reset_cooldowns"]
    /\ UNCHANGED <<now, tz, saved, nsnap, refs, sites, running>>

\* One function under stacked @cooldown(AppLimit, AppPeriod, bucket,
\* cooldown_id=i) decorators, the outermost with id 1 and
\* CooldownBucket.args, those under it with CooldownBucket.kwargs, and one
\* more limiter, with id MaxLayers + 1, that the program defined and no
\* function uses.  Id MaxLayers + 2 is not registered.
ResetIds == 1..(MaxLayers + 2)

InitReset ==
    /\ now = 0
    /\ tz = 0
    /\ cd = [l \in 1..(MaxLayers + 1) |->
               Cooldown__init__("Cooldown", AppLimit, AppPeriod,
                                IF l = 1 THEN "args" ELSE "kwargs",
                                l, "default_check")]
    /\ refs = [l \in 1..(MaxLayers + 1) |-> l]
    /\ sites = << [wrappers |->
                     StackedWrappers([i \in 1..MaxLayers |->
                                        "default_check"])] >>
    /\ orphans = EmptyBag
    /\ saved = <<>>
    /\ nsnap = 0
    /\ last = NoOutcome
    /\ running = EmptyBag

\* async with limiter(*args, **kwargs): an admission attempt on one of
\* the limiters, which leaves its window with a slot taken
AdmitDirect(l, c) ==
    /\ l \in DOMAIN cd
    /\ Enter(l, get_bucket_of(cd[l]._bucket, c))

NextReset ==
    \/ \E l \in ResetIds, c \in WrapCalls : AdmitDirect(l, c)
    \/ \E l \in DOMAIN cd, k \in AppKeys : FireCached(l, k)
    \/ \E o \in BagToSet(orphans) : FireOrphan(o)
    \/ TickApp
    \/ \E i \in ResetIds : GetSharedCooldown(i)
    \/ \E i \in ResetIds \ DOMAIN refs : DecorateShared(Len(sites) + 1, i)
    \/ \E i \in ResetIds : ResetCooldown(i)
    \/ \E c \in WrapCalls : ResetBucket(1, c)
    \/ ResetCooldowns(1)

SpecReset == InitReset /\ [][NextReset]_vars

\* ----------------------------------------------------- trigger cooldown
\* trigger_cooldown.TriggerCooldown: one object holding two limiters, the
\* normal one (object 1) and the trigger one (object 2, limit 1).  The
\* object decorates one function, `async def f(trigger_test=False)`,
\* whose body awaits trigger(P) when trigger_test is set.
TriggerPeriods == {1, 2}

\* The calls made to f: f(), f(1) and f(trigger_test=1)
TriggerCalls ==
    { [args |-> <<>>, kwargs |-> <<>>],
      [args |-> <<1>>, kwargs |-> <<>>],
      [args |-> <<>>, kwargs |-> << <<"trigger_test", 1>> >>] }

\* TriggerCooldown.__init__ with both ids given
TriggerCooldown__init__(limit, time_period, bucket, id, trigger_id) ==
    [triggered |-> FALSE, limit |-> limit, time_period |-> time_period,
     bucket |-> bucket, cooldown_id |-> id,
     trigger_cooldown_id |-> trigger_id,
     cooldown |-> 1, trigger_cooldown |-> 2]

\* The values f's parameters are bound to by call c, in the order of the
\* parameters
BoundValues(c) == c.args \o [i \in DOMAIN c.kwargs |-> c.kwargs[i][2]]

\* `if trigger_test:` in the body of f
WantsTrigger(c) == BoundValues(c) # <<>> /\ BoundValues(c)[1] = 1

\* tuple(values.values()) in trigger: the values of the locals of the
\* frame that awaits trigger, parameters first, then the variables the
\* function closes over (freevars; 3 stands for the TriggerCooldown
\* object when f reaches it through its closure)
FrameValues(c, freevars) == BoundValues(c) \o freevars

\* `inner` of TriggerCooldown.__call__ up to the body of f: the trigger
\* limiter is asked for the remaining calls of the key of the call, and
\* the call enters the trigger limiter when none remains, the normal
\* limiter otherwise.  A call that is admitted and awaits trigger stays in
\* `running` until it does.  triggered_until is history, not a field of
\* the program: for each call, the time up to which the last trigger
\* awaited by a call with those arguments asked for.
TriggerInner(c) ==
    LET t == sites[1].trigger
        k == get_bucket_of(cd[t.trigger_cooldown]._bucket, c)
    IN  /\ WantsTrigger(c) => BagCardinality(running) < MaxRunning
        /\ IF remaining_calls(t.trigger_cooldown, k) < 1
           THEN Cooldown__aenter__(t.trigger_cooldown, k)
           ELSE Cooldown__aenter__(t.cooldown, k)
        /\ running' = IF last'.res = "granted" /\ WantsTrigger(c)
                      THEN running (+) SetToBag({[call |-> c]})
                      ELSE running
        /\ UNCHANGED <<now, tz, orphans, saved, nsnap, refs, sites>>

\* `self.trigger_cooldown.time_period = time_period` in trigger
SetTriggerPeriod(c, time_period) == [c EXCEPT !.time_period = time_period]

\* await trigger_cooldown.trigger(time_period) in the body of the call r:
\* the period of the trigger limiter is set, the key is derived from the
\* locals of the calling frame and the trigger limiter is entered with it.
Trigger(r, time_period) ==
    LET t == sites[1].trigger
        l == t.trigger_cooldown
        c == SetTriggerPeriod(cd[l], time_period)
        k == get_bucket_of(c._bucket,
                           [args |-> FrameValues(r.call, sites[1].freevars),
                            kwargs |-> <<>>])
        w0 == IF k \in DOMAIN c._cache THEN c._cache[k]
              ELSE NewWindow(c.limit, c.time_period)
        w1 == IF Exhausted(w0) THEN w0
              ELSE CooldownTimesPer__aexit__(Granted(w0))
    IN  /\ BagIn(r, running)
        /\ running' = running (-) SetToBag({r})
        /\ cd' = [cd EXCEPT
                     ![l] = [create_task(c) EXCEPT
                               !._cache =
                                  [x \in DOMAIN c._cache \cup {k} |->
                                     IF x = k THEN w1 ELSE c._cache[x]],
                               !._last_bucket = k]]
        /\ sites' = [sites EXCEPT
                       ![1].trigger.triggered = TRUE,
                       ![1].triggered_until[r.call] =
                           IF Exhausted(w0) THEN @ ELSE now + time_period]
        /\ last' = [(IF Exhausted(w0)
                      THEN CallableOnCooldown(next_reset(w0))
                      ELSE [NoOutcome EXCEPT !.res = "triggered"])
                        EXCEPT !.key = k]
        /\ UNCHANGED <<now, tz, orphans, saved, nsnap, refs>>

\* my_trigger_cooldown = TriggerCooldown(1, 1, CooldownBucket.all,
\* cooldown_id=1, trigger_cooldown_id=2) decorating f; f reaches the
\* object through a global or through its closure.
InitTrigger ==
    /\ now = 0
    /\ tz = 0
    /\ cd = [l \in 1..2 |->
               Cooldown__init__("Cooldown", AppLimit, AppPeriod, "all", l,
                                "default_check")]
    /\ refs = [l \in 1..2 |-> l]
    /\ \E freevars \in {<<>>, <<3>>} :
          sites = << [wrappers |-> StackedWrappers(<<"default_check",
                                                     "default_check">>),
                      trigger |-> TriggerCooldown__init__(AppLimit, AppPeriod,
                                                          "all", 1, 2),
                      freevars |-> freevars,
                      triggered_until |-> [c \in TriggerCalls |-> 0]] >>
    /\ orphans = EmptyBag
    /\ saved = <<>>
    /\ nsnap = 0
    /\ last = NoOutcome
    /\ running = EmptyBag

NextTrigger ==
    \/ \E c \in TriggerCalls : TriggerInner(c)
    \/ \E r \in BagToSet(running), p \in TriggerPeriods : Trigger(r, p)
    \/ \E l \in 1..2 : \E k \in DOMAIN cd[l]._cache : FireCached(l, k)
    \/ \E l \in 1..2 : Sweep(l)
    \/ Tick

SpecTrigger == InitTrigger /\ [][NextTrigger]_vars

\* ------------------------------------------------------- generated ids
\* TriggerCooldown(limit, time_period, bucket) constructed without ids:
\* __init__ generates the ids under which it registers its two limiters,
\* and __call__ looks the limiters up under the ids the object holds.  The
\* loops run over range(10_000); here they run over GeneratedRange ids.
\* An id is a pair of a prefix and a number, NoId is None.
NoId == <<"None", 0>>

\* f"normal_cooldown_{i:02}" and f"trigger_cooldown_{i:02}"
generated_id(prefix, i) == <<prefix, i>>

\* `for i in range(10_000):` from i on, for the limiter l; st holds the
\* registry and the id the object has.  The loop has no break: every
\* generated id the registry does not hold is bound to l and assigned to
\* the object's id.
RECURSIVE generate_ids(_, _, _, _)
generate_ids(st, prefix, l, i) ==
    IF i >= GeneratedRange THEN st
    ELSE generate_ids(
            IF generated_id(prefix, i) \notin DOMAIN st.refs
            THEN [refs |-> [x \in DOMAIN st.refs \cup {generated_id(prefix, i)}
                              |-> IF x = generated_id(prefix, i) THEN l
                                  ELSE st.refs[x]],
                  id |-> generated_id(prefix, i)]
            ELSE st,
            prefix, l, i + 1)

\* TriggerCooldown(limit, time_period, CooldownBucket.all): the two
\* limiters are constructed without ids, so Cooldown.__init__ registers
\* neither, and the two loops follow.
ConstructTrigger(limit, time_period) ==
    LET n == NextObj
        a == generate_ids([refs |-> refs, id |-> NoId], "normal_cooldown",
                          n, 0)
        b == generate_ids([refs |-> a.refs, id |-> NoId], "trigger_cooldown",
                          n + 1, 0)
        t == [TriggerCooldown__init__(limit, time_period, "all", a.id, b.id)
                 EXCEPT !.cooldown = n, !.trigger_cooldown = n + 1]
    IN  /\ Len(sites) < MaxTriggers
        /\ cd' = [l \in DOMAIN cd \cup {n, n + 1} |->
                    IF l = n
                    THEN Cooldown__init__("Cooldown", limit, time_period,
                                          "all", 0, "default_check")
                    ELSE IF l = n + 1
                    THEN Cooldown__init__("Cooldown", 1, time_period,
                                          "all", 0, "default_check")
                    ELSE cd[l]]
        /\ refs' = b.refs
        /\ sites' = Append(sites, [trigger |-> t, applied |-> <<>>])
        /\ last' = [NoOutcome EXCEPT !.res = "constructed"]
        /\ UNCHANGED <<now, tz, orphans, saved, nsnap, running>>

\* TriggerCooldown.__call__(func) on object number s:
\* utils.shared_cooldown_refs[self.cooldown_id] and
\* utils.shared_cooldown_refs[self.trigger_cooldown_id]; a key the
\* registry does not hold raises KeyError.  `applied` is the pair of
\* limiters `inner` closes over.
ApplyTrigger(s) ==
    LET t == sites[s].trigger
    IN  /\ s \in DOMAIN sites
        /\ sites[s].applied = <<>>
        /\ IF /\ t.cooldown_id \in DOMAIN refs
              /\ t.trigger_cooldown_id \in DOMAIN refs
           THEN /\ sites' = [sites EXCEPT ![s].applied =
                                <<refs[t.cooldown_id],
                                  refs[t.trigger_cooldown_id]>>]
                /\ last' = [NoOutcome EXCEPT !.res = "decorated"]
           ELSE /\ sites' = sites
                /\ last' = [NoOutcome EXCEPT !.res = "KeyError"]
        /\ UNCHANGED <<now, tz, cd, orphans, saved, nsnap, refs, running>>

NextGenerated ==
    \/ \E limit \in 1..MaxLimit, p \in TriggerPeriods :
          ConstructTrigger(limit, p)
    \/ \E s \in 1..MaxTriggers : ApplyTrigger(s)

SpecGenerated == InitApp /\ [][NextGenerated]_vars

\* ------------------------------------------------------ concurrent calls
\* One function under one @cooldown(limit, 1, CooldownBucket.all) wrapper,
\* called while earlier calls of it are still in progress.  A call
\* suspends where `inner` awaits its check and where the function body
\* awaits; between the check and the body, `_cooldown(*args, **kwargs)`
\* derives the key and __aenter__ looks the window up and enters it
\* without suspending.
RaceCalls ==
    { [args |-> <<1>>, kwargs |-> <<>>],
      [args |-> <<1>>, kwargs |-> << <<"a", 2>>, <<"b", 3>> >>],
      [args |-> <<1>>, kwargs |-> << <<"b", 3>>, <<"a", 2>> >>] }

\* `inner` is called and awaits its check
CallRacing(s, c) ==
    /\ s \in 1..Len(sites)
    /\ BagCardinality(running) < MaxRacing
    /\ running' = running (+) SetToBag({[wrappers |-> sites[s].wrappers,
                                         pc |-> 1, call |-> c,
                                         held |-> <<>>]})
    /\ last' = [NoOutcome EXCEPT !.res = "called"]
    /\ UNCHANGED <<now, tz, cd, orphans, saved, nsnap, refs, sites>>

InitRace ==
    /\ now = 0
    /\ tz = 0
    /\ \E lim \in 1..MaxLimit :
          cd = [l \in {1} |->
                  Cooldown__init__("Cooldown", lim, AppPeriod, "all", 0,
                                   "default_check")]
    /\ sites = << [wrappers |-> StackedWrappers(<<"default_check">>)] >>
    /\ orphans = EmptyBag
    /\ saved = <<>>
    /\ nsnap = 0
    /\ last = NoOutcome
    /\ refs = [i \in {} |-> 0]
    /\ running = EmptyBag

NextRace ==
    \/ \E c \in RaceCalls : CallRacing(1, c)
    \/ \E r \in BagToSet(running) : Step(r)
    \/ \E r \in BagToSet(running), how \in {"returned", "raised"} :
          Finish(r, how)
    \/ \E k \in DOMAIN cd[1]._cache : FireCached(1, k)
    \/ Sweep(1)
    \/ TickApp

SpecRace == InitRace /\ [][NextRace]_vars

\* ----------------------------------------------------- calls step by step
\* The calls of the section above with `async with _cooldown(*args,
\* **kwargs)` taken apart: Cooldown.__call__ stores the key in _last_bucket
\* and __aenter__, awaited next, reads it.  The event loop runs one
\* coroutine at a time and changes over only where the running one
\* suspends.

\* A call yielding to the event loop at every point
Suspends_Everywhere(at) == TRUE

\* Whether a call that stands at `at` has yielded to the event loop:
\* `inner` awaits its check and the function body awaits; between
\* __call__ and the read of _last_bucket in __aenter__ nothing is awaited
\* that suspends (create_task only schedules).
Suspends(at) == at \in {"check", "body"}

\* The event loop can run something else than the calls rs are in
LoopFree(rs) == \A q \in BagToSet(rs) : Suspends(q.at)

\* `inner` is called and awaits its check
CallStaged(s, c) ==
    /\ s \in 1..Len(sites)
    /\ BagCardinality(running) < MaxRacing
    /\ LoopFree(running)
    /\ running' = running (+) SetToBag({[wrappers |-> sites[s].wrappers,
                                         pc |-> 1, call |-> c,
                                         held |-> <<>>, at |-> "check"]})
    /\ last' = [NoOutcome EXCEPT !.res = "called"]
    /\ UNCHANGED <<now, tz, cd, orphans, saved, nsnap, refs, sites>>

\* Cooldown.__call__ for call r, whose check was truthy:
\* self._last_bucket = self.get_bucket(*args, **kwargs); return self
Cooldown__call__(r) ==
    LET l == r.wrappers[r.pc].lim
    IN  /\ BagIn(r, running)
        /\ r.at = "check"
        /\ LoopFree(running (-) SetToBag({r}))
        /\ cd' = [cd EXCEPT ![l]._last_bucket =
                                get_bucket_of(cd[l]._bucket, r.call)]
        /\ running' = (running (-) SetToBag({r}))
                         (+) SetToBag({[r EXCEPT !.at = "keyed"]})
        /\ last' = NoOutcome
        /\ UNCHANGED <<now, tz, orphans, saved, nsnap, refs, sites>>

\* Cooldown.__aenter__ awaited by `async with` for call r: the window is
\* looked up under self._last_bucket
AwaitAEnter(r) ==
    LET l == r.wrappers[r.pc].lim
        on == [r EXCEPT !.pc = r.pc + 1, !.held = Append(r.held, l),
                        !.at = IF r.pc + 1 > Len(r.wrappers)
                               THEN "body" ELSE "check"]
    IN  /\ BagIn(r, running)
        /\ r.at = "keyed"
        /\ LoopFree(running (-) SetToBag({r}))
        /\ Cooldown__aenter__(l, cd[l]._last_bucket)
        /\ running' = (running (-) SetToBag({r}))
                         (+) (IF last'.res = "granted"
                              THEN SetToBag({on}) ELSE EmptyBag)
        /\ UNCHANGED <<now, tz, orphans, saved, nsnap, refs, sites>>

NextStaged ==
    \/ \E c \in RaceCalls : CallStaged(1, c)
    \/ \E r \in BagToSet(running) : Cooldown__call__(r)
    \/ \E r \in BagToSet(running) : AwaitAEnter(r)
    \/ \E r \in BagToSet(running), how \in {"returned", "raised"} :
          LoopFree(running) /\ Finish(r, how)
    \/ \E k \in DOMAIN cd[1]._cache : LoopFree(running) /\ FireCached(1, k)
    \/ LoopFree(running) /\ TickApp

SpecStaged == InitRace /\ [][NextStaged]_vars

\* --------------------------------------------- specification of liveness
\* The limiter of Spec with admissions that stop: attempts are made only
\* before StopTime, so that every timer they or a restore can schedule is
\* due by MaxTime.  The event loop runs due handles, the clock advances
\* and a sweep task that exists keeps waking up.
StopTime == MaxTime - 1

InitLive ==
    /\ now = 0
    /\ tz \in TzOffsets
    /\ \E lim \in 1..MaxLimit :
          cd = [l \in Lims |-> NewCooldown(lim, 1, l)]
    /\ orphans = EmptyBag
    /\ saved = <<>>
    /\ nsnap = 0
    /\ last = NoOutcome
    /\ refs = [l \in Lims |-> l]
    /\ sites = <<>>
    /\ running = EmptyBag

AdmitLive(l, c) == now < StopTime /\ Admit(l, c)

EnterLastLive(l) == now < StopTime /\ EnterLast(l)

NextLive ==
    \/ \E l \in Lims, c \in Calls : AdmitLive(l, c)
    \/ \E l \in Lims : EnterLastLive(l)
    \/ \E l \in Lims, k \in Keys : FireCached(l, k)
    \/ \E o \in BagToSet(orphans) : FireOrphan(o)
    \/ Tick
    \/ \E l \in Lims : Sweep(l)
    \/ \E l \in Lims : GetState(l)
    \/ \E l \in Lims : LoadFromState(l)
    \/ \E l \in Lims : LoadIntoFresh(l)

SpecLive ==
    /\ InitLive
    /\ [][NextLive]_vars
    /\ WF_vars(Tick)
    /\ \A l \in Lims : \A k \in Keys : WF_vars(FireCached(l, k))
    /\ WF_vars(\E o \in BagToSet(orphans) : FireOrphan(o))
    /\ \A l \in Lims : WF_vars(Sweep(l))

\* ===================================================================== claims
\* C1: starting from no window for a key, the n-th consecutive admission
\* attempt for the key with no replenishment in between is granted when
\* n <= limit and brings remaining_calls from limit - n + 1 to limit - n;
\* when n = limit + 1 it fails with CallableOnCooldown and remaining_calls
\* stays 0; remaining_calls is never negative.
C1_ConsecutiveAdmissions ==
    [][\A l \in Lims, k \in Keys :
         Enter(l, k) =>
            LET n == last'.n
                L == cd'[l]._cache[k].limit
            IN  /\ remaining_calls(l, k)' >= 0
                /\ (n >= 1 /\ n <= L) =>
                      /\ last'.res = "granted"
                      /\ remaining_calls(l, k) = L - n + 1
                      /\ remaining_calls(l, k)' = L - n
                /\ n = L + 1 =>
                      /\ last'.res = "CallableOnCooldown"
                      /\ remaining_calls(l, k) = 0
                      /\ remaining_calls(l, k)' = 0]_vars

\* C1 witness: a window of the largest limit has taken limit + 1 attempts
\* in a row and the last one was refused.
C1_Witness ==
    \E k \in DOMAIN cd[1]._cache :
        /\ cd[1]._cache[k].limit = MaxLimit
        /\ last.key = k
        /\ last.n = MaxLimit + 1
        /\ cd[1]._cache[k].current = 0
        /\ last.res = "CallableOnCooldown"

\* C2: every window in the cache has as many pending resets as it has
\* slots taken: Len(_next_reset) = limit - current.
C2_PendingMatchesTaken ==
    \A l \in Lims : \A k \in DOMAIN cd[l]._cache :
        Len(cd[l]._cache[k]._next_reset)
            = cd[l]._cache[k].limit - cd[l]._cache[k].current

\* C2 witness: a window rebuilt by load_from_state (its head entry is
\* timezone-aware) that has since granted an admission (its last entry is
\* naive) and is exhausted.
C2_Witness ==
    \E k \in DOMAIN cd[1]._cache :
        LET w == cd[1]._cache[k]
        IN  /\ Len(w._next_reset) = 2
            /\ w._next_reset[1].aware
            /\ ~w._next_reset[2].aware
            /\ w.current = 0

\* C3: every window in the cache has 0 <= current <= limit.
C3_CurrentInRange ==
    \A l \in Lims : \A k \in DOMAIN cd[l]._cache :
        /\ cd[l]._cache[k].current >= 0
        /\ cd[l]._cache[k].current <= cd[l]._cache[k].limit

\* C3 witness: a window rebuilt by load_from_state whose timers have all
\* run and which is full again.
C3_Witness ==
    \E k \in DOMAIN cd[1]._cache :
        LET w == cd[1]._cache[k]
        IN  /\ w.current = w.limit
            /\ w.limit = MaxLimit
            /\ w._timers = <<>>
            /\ nsnap = 1 /\ saved = <<>>
            /\ now = MaxTime

\* C4: an unforced eviction (clear(bucket) for one key, clear() globally,
\* or a round of the background sweep) leaves in the cache, untouched,
\* every window that has outstanding calls, under every key including
\* None.
C4_UnforcedEvictionKeepsBusy ==
    [][\A l \in Lims :
         (Sweep(l) \/ ClearAll(l, FALSE) \/ \E b \in Keys : Clear(l, b, FALSE))
            => \A k \in DOMAIN cd[l]._cache :
                  has_cooldown(cd[l]._cache[k])
                     => /\ k \in DOMAIN cd'[l]._cache
                        /\ cd'[l]._cache[k] = cd[l]._cache[k]]_vars

\* The steps that take the window of key k out of the cache of l or put
\* another one in its place: an eviction, or load_from_state.
Replaces(l, k) ==
    \/ Sweep(l)
    \/ \E f \in BOOLEAN : ClearAll(l, f) \/ Clear(l, k, f)
    \/ LoadFromState(l)
    \/ LoadIntoFresh(l)

Replenished(w) ==
    [w EXCEPT !.current = w.current + 1,
              !._next_reset = Tail(w._next_reset),
              !._timers = Tail(w._timers)]

\* C6: every granted admission schedules exactly one callback, so a
\* window has as many callbacks pending as it has slots taken; a callback
\* that runs adds 1 to current and removes the oldest pending reset, and
\* it never meets a full window; run on a full window, the callback
\* changes nothing.
C6_RestoredOnce ==
    [][/\ \A l \in Lims : \A k \in DOMAIN cd[l]._cache :
            LET w == cd[l]._cache[k]
            IN  /\ Len(w._timers) = w.limit - w.current
                /\ w.current = w.limit => _reset_invoke(w) = w
                /\ FireCached(l, k) =>
                      /\ w.current < w.limit
                      /\ cd'[l]._cache[k] = Replenished(w)
       /\ \A l \in Lims, k \in Keys :
            (Enter(l, k) /\ last'.res = "granted") =>
                Len(cd'[l]._cache[k]._timers)
                    = Len(_get_cooldown_for_bucket(l, k)._timers) + 1
       /\ \A o \in BagToSet(orphans) :
            /\ Len(o._timers) = o.limit - o.current
            /\ FireOrphan(o) =>
                  orphans' = (orphans (-) SetToBag({o}))
                                (+) Orphaned(SetToBag({Replenished(o)}))]_vars

\* C6 witness: with no snapshot taken, a window of the largest limit is
\* full again with nothing pending: each of its admissions has been paid
\* back by its callback.
C6_Witness ==
    \E k \in DOMAIN cd[1]._cache :
        LET w == cd[1]._cache[k]
        IN  /\ nsnap = 0
            /\ w.limit = MaxLimit
            /\ w.current = w.limit
            /\ w._next_reset = <<>> /\ w._timers = <<>>
            /\ last.res = "none"

\* C7: an attempt on an exhausted window raises CallableOnCooldown whose
\* resets_at is the earliest pending reset of the window and whose
\* retry_after is max(0, resets_at - now), and leaves the window as it
\* was: current, pending resets and callbacks.
C7_RejectionReport ==
    [][\A l \in Lims, k \in Keys :
         (HasWindow(l, k) /\ cd[l]._cache[k].current = 0 /\ Enter(l, k)) =>
            LET w == cd[l]._cache[k]
            IN  /\ last'.res = "CallableOnCooldown"
                /\ last'.resets_at # <<>>
                /\ \E i \in DOMAIN w._next_reset :
                      last'.resets_at[1] = w._next_reset[i]
                /\ \A i \in DOMAIN w._next_reset :
                      last'.resets_at[1].t <= w._next_reset[i].t
                /\ last'.retry_after =
                      (IF last'.resets_at[1].t - now > 0
                       THEN last'.resets_at[1].t - now ELSE 0)
                /\ cd'[l]._cache[k] = w]_vars

\* C8: load_from_state builds one window per recorded bucket; each
\* recorded epoch that lies in the past adds 1 to the recorded current and
\* is neither queued nor scheduled; the other epochs are queued in their
\* recorded order with one callback each, due at the epoch.  When every
\* epoch lies in the past the window is full with nothing pending.
C8_RestoreReconciles ==
    [][\A l \in Lims :
         (LoadFromState(l) \/ LoadIntoFresh(l)) =>
            /\ DOMAIN cd'[l]._cache
                  = { pickle_loads(s) : s \in DOMAIN saved[1].cache }
            /\ \A s \in DOMAIN saved[1].cache :
                 LET v == saved[1].cache[s]
                     r == cd'[l]._cache[pickle_loads(s)]
                     fut == SelectSeq(v.next_reset, LAMBDA e : e >= now)
                     past == { i \in DOMAIN v.next_reset :
                                 v.next_reset[i] < now }
                 IN  /\ r.limit = v.limit /\ r.time_period = v.time_period
                     /\ r.current = v.current + Cardinality(past)
                     /\ Len(r._next_reset) = Len(fut)
                     /\ \A i \in DOMAIN fut : r._next_reset[i] = Aware(fut[i])
                     /\ Len(r._timers) = Len(fut)
                     /\ \A i \in DOMAIN fut :
                          Cardinality({ j \in DOMAIN r._timers :
                                          r._timers[j] = fut[i] })
                             = Cardinality({ j \in DOMAIN fut :
                                               fut[j] = fut[i] })
                     /\ Len(fut) = 0 =>
                          /\ r.current = r.limit
                          /\ r._next_reset = <<>>]_vars

\* C8 witness: load_from_state has just rebuilt a window of limit 2 from
\* two recorded epochs, one expired (credited) and one still to come
\* (queued).
C8_Witness ==
    \E k \in DOMAIN cd[1]._cache :
        LET w == cd[1]._cache[k]
        IN  /\ last.res = "loaded" /\ last.n = 1
            /\ DOMAIN cd[1]._cache = {k}
            /\ w.limit = 2 /\ w.current = 1
            /\ Len(w._next_reset) = 1 /\ w._next_reset[1].aware
            /\ Len(w._timers) = 1

\* C9: loading the state just taken from a limiter into a fresh limiter
\* gives, under the same keys, windows with the same limit, period and
\* current and the same pending reset instants in the same order; the key
\* of every call that had a window has one again.
C9_RoundTrip ==
    [][\A l \in Lims :
         (LoadIntoFresh(l) /\ saved[1] = _pickle_cooldown(cd[l])) =>
            /\ DOMAIN cd'[l]._cache = DOMAIN cd[l]._cache
            /\ \A c \in Calls :
                  HasWindow(l, get_bucket(c)) => HasWindow(l, get_bucket(c))'
            /\ \A k \in DOMAIN cd[l]._cache :
                 LET w == cd[l]._cache[k]
                     r == cd'[l]._cache[k]
                 IN  /\ r.limit = w.limit
                     /\ r.time_period = w.time_period
                     /\ r.current = w.current
                     /\ Len(r._next_reset) = Len(w._next_reset)
                     /\ \A i \in DOMAIN w._next_reset :
                          r._next_reset[i].t = w._next_reset[i].t]_vars

\* C10: a window rebuilt by load_from_state that is exhausted with one
\* pending reset has one callback, due at that reset; an attempt made
\* before the callback raises CallableOnCooldown; the callback runs at the
\* reset time and gives the slot back; an attempt on the window with the
\* slot back is granted.
C10_RestoredExhausted ==
    [][\A l \in Lims, k \in Keys :
         /\ ( /\ HasWindow(l, k)
              /\ cd[l]._cache[k].current = 0
              /\ Len(cd[l]._cache[k]._next_reset) = 1
              /\ cd[l]._cache[k]._next_reset[1].aware ) =>
               LET w == cd[l]._cache[k]
               IN  /\ w._timers = << w._next_reset[1].t >>
                   /\ Enter(l, k) => last'.res = "CallableOnCooldown"
                   /\ FireCached(l, k) =>
                         /\ now = w._next_reset[1].t
                         /\ cd'[l]._cache[k].current = 1
         /\ ( /\ HasWindow(l, k)
              /\ cd[l]._cache[k].current > 0
              /\ Enter(l, k) ) => last'.res = "granted"]_vars

\* C16: clear(key, force_evict) with a key: afterwards the key is absent
\* iff it was absent, or its window had no outstanding calls, or
\* force_evict was true, and every other entry is as before.  clear()
\* without a key: after an unforced clear the cache holds exactly the
\* windows that had outstanding calls, unchanged; after a forced clear it
\* is empty.
C16_ClearRule ==
    [][\A l \in Lims : \A f \in BOOLEAN :
         LET old == cd[l]._cache
             new == cd'[l]._cache
         IN  /\ \A k \in Keys :
                  Clear(l, k, f) =>
                     /\ (k \notin DOMAIN new) <=>
                           \/ k \notin DOMAIN old
                           \/ ~has_cooldown(old[k])
                           \/ f
                     /\ DOMAIN new \subseteq DOMAIN old
                     /\ \A x \in DOMAIN old \ {k} :
                           x \in DOMAIN new /\ new[x] = old[x]
             /\ ClearAll(l, f) =>
                  /\ DOMAIN new =
                        (IF f THEN {}
                         ELSE { k \in DOMAIN old : has_cooldown(old[k]) })
                  /\ \A x \in DOMAIN new : new[x] = old[x]]_vars

\* The wrappers shared_cooldown(id) has put around the decorated functions
SharedWrappers(id) ==
    { w \in UNION { { sites[s].wrappers[j] : j \in DOMAIN sites[s].wrappers } :
                    s \in DOMAIN sites } : w.shared = id }

\* C11: functions wrapped with shared_cooldown(id) for one registered id
\* observe one admission state: when a call reaches the wrapper of one of
\* them while the window of its key is exhausted at the limiter of any
\* function wrapped for that id, the call is not admitted.
C11_SharedSitesOneState ==
    [][\A r \in BagToSet(running) :
         LET w == r.wrappers[r.pc]
             k == get_bucket_of(cd[w.lim]._bucket, r.call)
         IN  ( /\ ~InBody(r)
               /\ w.shared # 0
               /\ check(CheckOf(r, r.pc), r.call)
               /\ Step(r)
               /\ \E v \in SharedWrappers(w.shared) :
                     /\ k \in DOMAIN cd[v.lim]._cache
                     /\ Exhausted(cd[v.lim]._cache[k]) )
             => last'.res # "granted"]_vars

\* C12: define_shared_cooldown and define_shared_static_cooldown called
\* with an id that is registered, by either of them or otherwise, raise
\* CooldownAlreadyExists and leave the registry and the limiters as they
\* were.
C12_DefineExistingFails ==
    [][\A c \in {"Cooldown", "StaticCooldown"}, i \in AppIds,
          b \in WrapBuckets, k \in Checks :
         (i \in DOMAIN refs /\ Define(c, i, b, k)) =>
            /\ last'.res = "CooldownAlreadyExists"
            /\ refs' = refs
            /\ cd' = cd]_vars

\* A define_shared_* call has just failed on an id bound to a static
\* limiter that functions' wrappers or the program may be using
C12_Witness ==
    /\ last.res = "CooldownAlreadyExists"
    /\ \E i \in DOMAIN refs : cd[refs[i]].class = "StaticCooldown"

\* C13: once an id is bound in shared_cooldown_refs no step of the
\* program binds it to another limiter.
C13_NoRebinding ==
    [][\A i \in DOMAIN refs :
         i \in DOMAIN refs' /\ refs'[i] = refs[i]]_vars

\* The named values of a call as Python compares dicts: without order
Named(c) == { c.kwargs[i] : i \in DOMAIN c.kwargs }

\* The cache entry the call d is looked up as after a step
FoundAfter(l, d) ==
    dict_find(cd'[l]._cache, get_bucket_of(cd[l]._bucket, d))

\* C14: under the default strategy two calls with the same positional
\* values in order and the same named values in any order derive keys
\* that are equal and hash equally, so that when one of them has been
\* through admission the other is looked up as the window just charged;
\* calls whose positional values differ derive unequal keys.
C14_KeyEquality ==
    [][\A l \in Lims : \A c \in AppCalls : \A d \in AppCalls :
         LET kc == get_bucket_of("all", c)
             kd == get_bucket_of("all", d)
         IN  (cd[l]._bucket = "all" /\ AdmitCall(l, c)) =>
                /\ (c.args = d.args /\ Named(c) = Named(d)) =>
                      /\ HashableArguments__eq__(kc, kd)
                      /\ HashableArguments__hash__(kc)
                            = HashableArguments__hash__(kd)
                      /\ FoundAfter(l, d) = {cd'[l]._last_bucket}
                /\ c.args # d.args => ~HashableArguments__eq__(kc, kd)]_vars

\* What the strategies are specified to compare
SameBucket(bucket, c, d) ==
    CASE bucket = "all"    -> c.args = d.args /\ Named(c) = Named(d)
      [] bucket = "args"   -> c.args = d.args
      [] bucket = "kwargs" -> Named(c) = Named(d)
      [] OTHER             -> process(bucket, c) = process(bucket, d)

\* C15: when a call has been through admission, another call is looked up
\* as the window just charged if and only if the limiter's strategy makes
\* the two calls the same bucket.
C15_StrategiesPartition ==
    [][\A l \in Lims : \A c \in AppCalls : \A d \in AppCalls :
         AdmitCall(l, c) =>
            ( FoundAfter(l, d) = {cd'[l]._last_bucket}
                 <=> SameBucket(cd[l]._bucket, c, d) )]_vars

\* C17: remaining_calls answers the limit when the derived key has no
\* window and the window's current otherwise; remaining_calls and
\* get_cooldown_times_per change no limiter; and a key that enters the
\* cache is the key of the admission attempt just made.
C17_ReadsAreReadOnly ==
    [][\A l \in Lims :
         /\ \A c \in AppCalls :
              LET k == get_bucket_of(cd[l]._bucket, c)
              IN  /\ RemainingCalls(l, c) =>
                        /\ cd' = cd
                        /\ last'.n = IF dict_find(cd[l]._cache, k) = {}
                                     THEN cd[l].limit
                                     ELSE cd[l]._cache[k].current
                  /\ GetCooldownTimesPer(l, c) =>
                        /\ cd' = cd
                        /\ (last'.res = "None")
                              <=> (dict_find(cd[l]._cache, k) = {})
         /\ \A k \in DOMAIN cd'[l]._cache \ DOMAIN cd[l]._cache :
              /\ last'.res \in {"granted", "CallableOnCooldown", "TypeError"}
              /\ last'.key = k]_vars

\* remaining_calls has answered the limit for a key without a window while
\* the limiter holds an exhausted window of another key, and the cache
\* still has that one entry
C17_Witness ==
    \E l \in Lims :
       /\ last.res = "remaining_calls"
       /\ last.key \notin DOMAIN cd[l]._cache
       /\ last.n = cd[l].limit
       /\ Cardinality(DOMAIN cd[l]._cache) = 1
       /\ \E k \in DOMAIN cd[l]._cache : Exhausted(cd[l]._cache[k])

\* The limiters call r has to be admitted by before wrapper number n:
\* those of its wrappers whose check is truthy, outermost first
RECURSIVE Attached(_, _)
Attached(r, n) ==
    IF n = 0 THEN <<>>
    ELSE IF check(CheckOf(r, n), r.call)
         THEN Append(Attached(r, n - 1), r.wrappers[n].lim)
         ELSE Attached(r, n - 1)

\* C18: when the check of a wrapper returns a falsy value for a call, the
\* call goes on to the wrapped function and no limiter changes: no window
\* is created or charged, no reset is added or scheduled, no sweep task
\* started, whatever the windows hold.
C18_FalsyCheckBypasses ==
    [][\A r \in BagToSet(running) :
         ( /\ ~InBody(r)
           /\ ~check(CheckOf(r, r.pc), r.call)
           /\ Step(r) )
         => /\ cd' = cd
            /\ orphans' = orphans
            /\ running' = (running (-) SetToBag({r}))
                             (+) SetToBag({[r EXCEPT !.pc = r.pc + 1]})]_vars

\* A call runs the function body admitted by no limiter while, at every
\* limiter of the function, the window of its key is exhausted
C18_Witness ==
    \E r \in BagToSet(running) :
       /\ InBody(r)
       /\ r.held = <<>>
       /\ \A i \in DOMAIN r.wrappers :
             LET c == cd[r.wrappers[i].lim]
                 k == get_bucket_of(c._bucket, r.call)
             IN  k \in DOMAIN c._cache /\ Exhausted(c._cache[k])

\* C19: leaving the admission scope changes nothing.  When the body of a
\* call ends, by returning or by raising, no limiter and no evicted
\* window changes; an admission leaves its window one slot down and one
\* reset up; and the current of a window that stays cached goes up only
\* when its timer fires or the limiter is loaded from a snapshot.
C19_NoReleaseOnExit ==
    [][/\ \A r \in BagToSet(running) : \A how \in {"returned", "raised"} :
            Finish(r, how) => cd' = cd /\ orphans' = orphans
       /\ \A r \in BagToSet(running) :
            (~InBody(r) /\ Step(r) /\ last'.res = "granted") =>
               LET l == r.wrappers[r.pc].lim
                   k == last'.key
                   w == _get_cooldown_for_bucket(l, k)
               IN  /\ cd'[l]._cache[k].current = w.current - 1
                   /\ Len(cd'[l]._cache[k]._next_reset)
                         = Len(w._next_reset) + 1
       /\ \A l \in DOMAIN cd : \A k \in DOMAIN cd[l]._cache :
            ( /\ k \in DOMAIN cd'[l]._cache
              /\ cd'[l]._cache[k].current > cd[l]._cache[k].current )
            => FireCached(l, k) \/ LoadFromState(l)]_vars

\* The body of a call has raised, and the slot the call took is still
\* taken and waits for its timer
C19_Witness ==
    /\ last.res = "raised"
    /\ \E l \in DOMAIN cd : \E k \in DOMAIN cd[l]._cache :
          /\ cd[l]._last_bucket = k
          /\ cd[l]._cache[k].current = 0
          /\ Len(cd[l]._cache[k]._next_reset) = 1
          /\ ~cd[l]._cache[k]._next_reset[1].aware

\* C20: a call reaches the function body only when every limiter whose
\* check is truthy has admitted it, each once and outermost first; a
\* limiter that does not admit the call ends it before the body, with
\* CallableOnCooldown reaching the caller.
C20_WrappingContract ==
    [][\A r \in BagToSet(running) :
         /\ r.held = Attached(r, r.pc - 1)
         /\ ( /\ ~InBody(r)
              /\ check(CheckOf(r, r.pc), r.call)
              /\ Step(r) )
            => IF last'.res = "granted"
               THEN running' =
                       (running (-) SetToBag({r})) (+)
                       SetToBag({[r EXCEPT
                                    !.pc = r.pc + 1,
                                    !.held = Append(r.held,
                                                r.wrappers[r.pc].lim)]})
               ELSE /\ running' = running (-) SetToBag({r})
                    /\ last'.res = "CallableOnCooldown"]_vars

\* C21, as stated: no sweep task exists after construction or after
\* load_from_state; the first admission attempt creates it; at most one
\* is ever created for a limiter.
C21_NoSweepTaskAfterLoad ==
    /\ \A l \in Lims : ~cd[l]._clean_task
    /\ [][\A l \in Lims :
            /\ (LoadFromState(l) \/ LoadIntoFresh(l)) => ~cd'[l]._clean_task
            /\ \A k \in Keys : Enter(l, k) => cd'[l]._clean_task
            /\ cd'[l]._keep_buckets_clear <= 1]_vars

\* C21, amended: no sweep task exists after construction; load_from_state
\* neither creates nor cancels one (none exists after a load into a
\* limiter that was never entered); a limiter gets its task at its first
\* admission attempt, granted or rejected, and at no other step; at most
\* one is ever created for a limiter.
C21_SweepTaskCreatedOnce ==
    /\ \A l \in Lims : ~cd[l]._clean_task
    /\ [][\A l \in Lims :
            /\ LoadFromState(l) =>
                  /\ cd'[l]._clean_task = cd[l]._clean_task
                  /\ cd'[l]._keep_buckets_clear = cd[l]._keep_buckets_clear
            /\ LoadIntoFresh(l) => ~cd'[l]._clean_task
            /\ \A k \in Keys : Enter(l, k) => cd'[l]._clean_task
            /\ (cd'[l]._clean_task /\ ~cd[l]._clean_task) =>
                  \E k \in Keys : Enter(l, k)
            /\ cd'[l]._clean_task <=> cd'[l]._keep_buckets_clear = 1
            /\ cd'[l]._keep_buckets_clear <= 1]_vars

\* A rejected admission attempt has left the limiter with its one sweep
\* task
C21_Witness ==
    \E l \in Lims :
       /\ last.res \in {"CallableOnCooldown", "TypeError"}
       /\ cd[l]._clean_task
       /\ cd[l]._keep_buckets_clear = 1

\* The first occurrence of time of day t strictly later than n
FirstAfter(n, t) ==
    CHOOSE x \in (n + 1)..(n + DayLen) : x % DayLen = t

Full(w) == w.current = w.limit /\ w._next_reset = <<>>

\* The windows of the limiters and the evicted windows still alive
AllWindows ==
    UNION { { cd[l]._cache[k] : k \in DOMAIN cd[l]._cache } :
            l \in DOMAIN cd } \cup BagToSet(orphans)

\* C23, as stated: once admissions have stopped, every window comes to
\* have all its slots and no pending reset when its last timer has run,
\* and the cache of every limiter ends up empty.
C23_CacheEventuallyEmpty ==
    /\ [](\A w \in AllWindows : w._timers = <<>> => Full(w))
    /\ <>[](\A l \in Lims : DOMAIN cd[l]._cache = {})

\* C23, amended: once admissions have stopped, every window comes to have
\* all its slots and no pending reset when its last timer has run, no
\* timer stays pending, and the cache of every limiter that has a sweep
\* task (one that was entered at least once) ends up empty.
C23_SweptWhenTaskExists ==
    /\ [](\A w \in AllWindows : w._timers = <<>> => Full(w))
    /\ <>[](/\ \A w \in AllWindows : w._timers = <<>>
            /\ \A l \in Lims :
                  cd[l]._clean_task => DOMAIN cd[l]._cache = {})

\* The sweep has emptied the cache of a limiter that had admitted calls
\* and been loaded from a snapshot
C23_Witness ==
    \E l \in Lims :
       /\ cd[l]._clean_task
       /\ DOMAIN cd[l]._cache = {}
       /\ nsnap = 1 /\ saved = <<>>
       /\ orphans = EmptyBag
       /\ now >= StopTime

\* C24: get_shared_cooldown, shared_cooldown (when it wraps a function)
\* and reset_cooldown called with an id that is not registered raise
\* NonExistent and leave the registry, the limiters and the decorated
\* functions as they were.
C24_UnknownIdFails ==
    [][\A i \in ResetIds \ DOMAIN refs :
         ( \/ GetSharedCooldown(i)
           \/ DecorateShared(Len(sites) + 1, i)
           \/ ResetCooldown(i) )
         => /\ last'.res = "NonExistent"
            /\ refs' = refs
            /\ cd' = cd
            /\ orphans' = orphans
            /\ sites' = sites]_vars

\* A lookup has failed while a registered limiter holds a window
C24_Witness ==
    /\ last.res = "NonExistent"
    /\ \E i \in DOMAIN refs : DOMAIN cd[refs[i]]._cache # {}
    /\ ResetIds \ DOMAIN refs # {}

\* C25: reset_cooldown(id) leaves the cache of the limiter registered
\* under id empty, whatever its windows held, and leaves every other
\* limiter, the registry and the decorated functions as they were.
C25_ResetCooldownFrame ==
    [][\A i \in DOMAIN refs :
         ResetCooldown(i) =>
            /\ DOMAIN cd'[refs[i]]._cache = {}
            /\ \A l \in DOMAIN cd \ {refs[i]} : cd'[l] = cd[l]
            /\ refs' = refs
            /\ sites' = sites]_vars

\* reset_cooldown has emptied a limiter whose window had a slot taken,
\* while the limiter stacked with it on the same function keeps its
\* window
C25_Witness ==
    /\ last.res = "reset_cooldown"
    /\ orphans # EmptyBag
    /\ \E l \in _get_cooldowns_or_raise(1) : \E m \in _get_cooldowns_or_raise(1) :
          /\ DOMAIN cd[l]._cache = {}
          /\ \E k \in DOMAIN cd[m]._cache : has_cooldown(cd[m]._cache[k])

\* C26: reset_bucket(func, args) removes from every limiter attached to
\* func the window of the key the limiter derives from args, whatever it
\* held, and nothing else: the other windows of those limiters and the
\* other limiters stay as they were, and nothing changes where the key
\* has no window.  reset_cooldowns(func) leaves the cache of every
\* attached limiter empty and the other limiters as they were.
C26_ResetBucketFrame ==
    [][/\ \A c \in WrapCalls :
            ResetBucket(1, c) =>
               \A l \in DOMAIN cd :
                  LET k == get_bucket_of(cd[l]._bucket, c)
                  IN  IF l \in _get_cooldowns_or_raise(1)
                      THEN /\ DOMAIN cd'[l]._cache = DOMAIN cd[l]._cache \ {k}
                           /\ \A x \in DOMAIN cd'[l]._cache :
                                 cd'[l]._cache[x] = cd[l]._cache[x]
                           /\ k \notin DOMAIN cd[l]._cache => cd'[l] = cd[l]
                      ELSE cd'[l] = cd[l]
       /\ ResetCooldowns(1) =>
            \A l \in DOMAIN cd :
               IF l \in _get_cooldowns_or_raise(1)
               THEN DOMAIN cd'[l]._cache = {}
               ELSE cd'[l] = cd[l]]_vars

\* reset_bucket has removed a window that had a slot taken from a limiter
\* that keeps the window of another key
C26_Witness ==
    /\ last.res = "reset_bucket"
    /\ orphans # EmptyBag
    /\ \E l \in _get_cooldowns_or_raise(1) :
          \E k \in DOMAIN cd[l]._cache : has_cooldown(cd[l]._cache[k])

\* C27: of every window, next_reset is the earliest of the pending
\* entries and fully_reset_at the entry scheduled last, both are None
\* exactly when no reset of the window is pending, and has_cooldown holds
\* exactly when current differs from limit.  (The three reads are
\* operators of the window: they have no next state to change.)
C27_WindowReads ==
    \A w \in AllWindows :
        /\ (next_reset(w) = <<>>) <=> (w._timers = <<>>)
        /\ (fully_reset_at(w) = <<>>) <=> (w._timers = <<>>)
        /\ next_reset(w) # <<>> =>
              \A i \in DOMAIN w._next_reset :
                  next_reset(w)[1].t <= w._next_reset[i].t
        /\ fully_reset_at(w) # <<>> =>
              fully_reset_at(w)[1] = w._next_reset[Len(w._next_reset)]
        /\ has_cooldown(w) <=> (w.current # w.limit)

\* C28: load_from_state(state) leaves the limiter with the limit,
\* time_period, pending_reset and cooldown_id of state and with a cache
\* that holds a window for exactly the keys recorded in state, each built
\* from the record of its key: no window the cache held before is in it.
C28_LoadReplaces ==
    [][\A l \in Lims :
         (LoadFromState(l) \/ LoadIntoFresh(l)) =>
            LET state == saved[1]
                recorded == { k \in Keys \cup {NoneKey} :
                                pickle_dumps(k) \in DOMAIN state.cache }
            IN  /\ cd'[l].limit = state.limit
                /\ cd'[l].time_period = state.time_period
                /\ cd'[l].pending_reset = state.pending_reset
                /\ cd'[l].cooldown_id = state.cooldown_id
                /\ DOMAIN cd'[l]._cache = recorded
                /\ Cardinality(recorded) = Cardinality(DOMAIN state.cache)
                /\ \A k \in recorded :
                      LET v == state.cache[pickle_dumps(k)]
                          w == cd'[l]._cache[k]
                      IN  /\ w.limit = v.limit
                          /\ w.time_period = v.time_period
                          /\ Len(w._next_reset) <= Len(v.next_reset)
                          /\ \A i \in DOMAIN w._next_reset : w._next_reset[i].aware]_vars

\* A state taken before the first admission has been loaded: the cache
\* is empty, and the window admitted in between lives on with its timer
\* outside the limiter, whose limit and period are those of the state
C28_Witness ==
    /\ last.res = "loaded"
    /\ DOMAIN cd[1]._cache = {}
    /\ orphans # EmptyBag
    /\ cd[1].limit = MaxLimit
    /\ cd[1].time_period = MaxPeriod
    /\ ~cd[1]._clean_task

\* C29: from the moment a call of the decorated function has awaited
\* trigger(P), every call of the function made within the next P seconds
\* raises CallableOnCooldown.  (Stated of the calls made with the
\* arguments of the call that awaited trigger, the least the claim says.)
C29_TriggerBlocks ==
    [][\A c \in TriggerCalls :
         (TriggerInner(c) /\ now < sites[1].triggered_until[c])
            => last'.res = "CallableOnCooldown"]_vars

\* The admissions of the windows that limiter l holds for keys equal to k
\* which have not been replenished yet: each has its timer pending
RECURSIVE Outstanding(_, _, _)
Outstanding(l, k, ks) ==
    IF ks = {} THEN 0
    ELSE LET x == CHOOSE y \in ks : TRUE
         IN  (IF HashableArguments__eq__(x, k)
              THEN Len(cd[l]._cache[x]._timers) ELSE 0)
             + Outstanding(l, k, ks \ {x})

\* C30: whatever the interleaving of the calls of a decorated function,
\* the cache holds at most one window for a key, every call deriving the
\* key is charged to that window (it takes one slot of it or is rejected
\* by it), no window lives outside the cache, and the admissions of a
\* key that have not been replenished never exceed limit.
C30_OneWindowPerKey ==
    /\ [](/\ orphans = EmptyBag
          /\ \A k \in DOMAIN cd[1]._cache :
                /\ \A x \in DOMAIN cd[1]._cache :
                      HashableArguments__eq__(x, k) => x = k
                /\ Outstanding(1, k, DOMAIN cd[1]._cache) <= cd[1].limit)
    /\ [][\A r \in BagToSet(running) :
            (Step(r) /\ ~InBody(r) /\ use_cooldown(r)) =>
               LET k == get_bucket_of(cd[1]._bucket, r.call)
                   same == { x \in DOMAIN cd[1]._cache :
                               HashableArguments__eq__(x, k) }
               IN  IF same = {}
                   THEN /\ last'.res = "granted"
                        /\ DOMAIN cd'[1]._cache = DOMAIN cd[1]._cache \cup {k}
                        /\ cd'[1]._cache[k].current = cd[1].limit - 1
                   ELSE /\ DOMAIN cd'[1]._cache = DOMAIN cd[1]._cache
                        /\ \A x \in same :
                              IF cd[1]._cache[x].current = 0
                              THEN /\ last'.res = "CallableOnCooldown"
                                   /\ cd'[1]._cache[x] = cd[1]._cache[x]
                              ELSE /\ last'.res = "granted"
                                   /\ cd'[1]._cache[x].current =
                                         cd[1]._cache[x].current - 1]_vars

\* C31: while nothing has been restored, a cached window of period P
\* holds one entry per admission granted and not yet replenished, each
\* entry is the admission's own time + P and has its own callback due
\* then; once every callback that is due has run, current is limit minus
\* the admissions granted during the last P clock units.  A granted
\* admission appends its entry, and a callback hands back exactly one
\* slot, that of the oldest entry, whose time has come.
C31_PerCallSlots ==
    /\ [](nsnap = 0 =>
            \A l \in Lims : \A k \in DOMAIN cd[l]._cache :
               LET w == cd[l]._cache[k]
               IN  /\ Len(w._timers) = Len(w._next_reset)
                   /\ \A i \in DOMAIN w._next_reset :
                         /\ w._timers[i] = w._next_reset[i].t
                         /\ w._next_reset[i].t <= now + w.time_period
                   /\ ~TimerDue(w) =>
                         w.current = w.limit
                            - Cardinality({ i \in DOMAIN w._next_reset :
                                  w._next_reset[i].t - w.time_period
                                     > now - w.time_period }))
    /\ [][nsnap = 0 =>
            \A l \in Lims : \A k \in Keys :
               /\ (Enter(l, k) /\ last'.res = "granted") =>
                     /\ cd'[l]._cache[k]._next_reset =
                           Append(_get_cooldown_for_bucket(l, k)._next_reset,
                                  Naive(now + cd[l].time_period))
                     /\ cd'[l]._cache[k].current =
                           _get_cooldown_for_bucket(l, k).current - 1
               /\ FireCached(l, k) =>
                     /\ Head(cd[l]._cache[k]._next_reset).t <= now
                     /\ cd'[l]._cache[k].current = cd[l]._cache[k].current + 1
                     /\ cd'[l]._cache[k]._next_reset =
                           Tail(cd[l]._cache[k]._next_reset)]_vars

\* Two admissions granted at different times are pending in one window,
\* the older one about to be replenished on its own
C31_Witness ==
    /\ nsnap = 0
    /\ \E k \in DOMAIN cd[1]._cache :
          LET w == cd[1]._cache[k]
          IN  /\ Len(w._next_reset) = 2
              /\ w._next_reset[1].t = now
              /\ w._next_reset[2].t > now

\* C32: in every window the pending reset times are in non-decreasing
\* order from the head of the queue to its tail, and the callback that
\* runs next is due at the time of the head entry, which it removes.
C32_QueueOrdered ==
    \A w \in AllWindows :
        /\ \A i \in DOMAIN w._next_reset : \A j \in DOMAIN w._next_reset :
              i < j => w._next_reset[i].t <= w._next_reset[j].t
        /\ (w._timers # <<>> /\ w._next_reset # <<>>) =>
              Head(w._timers) = Head(w._next_reset).t

\* C34: stacked limiters are asked outermost first, and a rejection further
\* in leaves the limiters further out charged.  The limiters that have
\* admitted a call in progress are the limiters of the wrappers before its
\* position whose check was truthy, outermost first; an admission takes one
\* slot of its window and schedules one reset; and when a limiter rejects
\* the call, every limiter that had admitted it is left exactly as it was,
\* with the slot taken and the reset still scheduled, while the call ends.
C34_OuterStaysCharged ==
    /\ [](\A r \in BagToSet(running) :
            r.held = SelectSeq([i \in 1..(r.pc - 1) |-> r.wrappers[i].lim],
                               LAMBDA l : \E i \in 1..(r.pc - 1) :
                                   /\ r.wrappers[i].lim = l
                                   /\ check(CheckOf(r, i), r.call)))
    /\ [][\A r \in BagToSet(running) :
            (~InBody(r) /\ Step(r)) =>
               LET l == r.wrappers[r.pc].lim
                   k == get_bucket_of(cd[l]._bucket, r.call)
                   w == _get_cooldown_for_bucket(l, k)
               IN  /\ last'.res = "granted" =>
                        /\ cd'[l]._cache[k].current = w.current - 1
                        /\ cd'[l]._cache[k]._next_reset =
                              Append(w._next_reset,
                                     Naive(now + w.time_period))
                        /\ cd'[l]._cache[k]._timers =
                              call_later(w._timers, now + w.time_period)
                   /\ last'.res \in {"CallableOnCooldown", "TypeError"} =>
                        /\ \A i \in DOMAIN r.held :
                              cd'[r.held[i]] = cd[r.held[i]]
                        /\ ~BagIn(r, running') \/ CopiesIn(r, running) > 1]_vars

\* The outer limiter asks every call, and the inner limiter has just
\* rejected a call (the reset reported is not the outer window's): the
\* outer window, which admitted that call, is down one slot with its reset
\* pending
C34_Witness ==
    /\ Cardinality(DOMAIN cd) = 2
    /\ sites[1].wrappers[1].check = "default_check"
    /\ running = EmptyBag
    /\ last.res = "CallableOnCooldown"
    /\ cd[2]._last_bucket = last.key
    /\ \E k \in DOMAIN cd[1]._cache :
          /\ cd[1]._last_bucket = k
          /\ cd[1]._cache[k].current = cd[1].limit - 1
          /\ Len(cd[1]._cache[k]._next_reset) = 1
          /\ cd[1]._cache[k]._next_reset[1].t = now + cd[1].time_period
          /\ last.resets_at # <<cd[1]._cache[k]._next_reset[1]>>

\* C35: a window evicted with callbacks pending and the window created
\* later for its key are separate.  A callback of an evicted window changes
\* no limiter; a window that comes into the cache other than by a restore
\* is a window at its full limit that has taken the one admission that
\* created it; and a cached window changes only by an admission under its
\* own key, by its own callback or by a restore.
C35_EvictedApart ==
    [][/\ \A o \in BagToSet(orphans) : FireOrphan(o) => cd' = cd
       /\ \A l \in Lims : \A k \in Keys :
            ( /\ ~HasWindow(l, k)
              /\ k \in DOMAIN cd'[l]._cache
              /\ ~LoadFromState(l) /\ ~LoadIntoFresh(l) )
            => /\ Enter(l, k)
               /\ cd'[l]._cache[k] =
                     Granted(NewWindow(cd[l].limit, cd[l].time_period))
       /\ \A l \in Lims : \A k \in Keys :
            ( /\ HasWindow(l, k)
              /\ k \in DOMAIN cd'[l]._cache
              /\ cd'[l]._cache[k] # cd[l]._cache[k] )
            => \/ Enter(l, k)
               \/ FireCached(l, k)
               \/ LoadFromState(l) \/ LoadIntoFresh(l)]_vars

\* No snapshot was taken.  The window of the None key is still cached and
\* holds a reset older than one an evicted window waits for, so the evicted
\* window was that of the call's key; the window now cached under that key
\* was created by the last admission and holds that admission only
C35_Witness ==
    /\ nsnap = 0
    /\ last.res = "granted" /\ last.n = 1 /\ ~last.key.none
    /\ \E l \in Lims : \E o \in BagToSet(orphans) :
          /\ DOMAIN cd[l]._cache = {NoneKey, last.key}
          /\ cd[l]._cache[last.key].current = cd[l].limit - 1
          /\ Len(cd[l]._cache[last.key]._next_reset) = 1
          /\ cd[l]._cache[NoneKey]._next_reset # <<>>
          /\ o._timers # <<>>
          /\ o.current < o.limit
          /\ \E i \in DOMAIN o._next_reset :
                o._next_reset[i].t > Head(cd[l]._cache[NoneKey]._next_reset).t

\* C36: get_state reads and does not change.  A snapshot leaves the
\* limiter as it was, every window with the same current, the same pending
\* resets in the same order and the same callbacks, and leaves the evicted
\* windows alone; a snapshot taken again in the state it leaves is equal
\* to it; and once a snapshot has been taken, a callback of a window that
\* has slots out still takes the head entry off the queue and hands one
\* slot back.
C36_SnapshotReadOnly ==
    [][/\ \A l \in Lims :
            GetState(l) =>
               /\ cd' = cd
               /\ orphans' = orphans
               /\ _pickle_cooldown(cd'[l]) = saved'[1]
       /\ \A l \in Lims : \A k \in Keys :
            ( /\ nsnap > 0
              /\ FireCached(l, k)
              /\ cd[l]._cache[k]._next_reset # <<>>
              /\ cd[l]._cache[k].current >= 0
              /\ cd[l]._cache[k].current < cd[l]._cache[k].limit )
            => /\ cd'[l]._cache[k]._next_reset =
                     Tail(cd[l]._cache[k]._next_reset)
               /\ cd'[l]._cache[k].current = cd[l]._cache[k].current + 1]_vars

\* A snapshot has been taken of a limiter that holds a window with two
\* resets pending, and the window still holds both with their callbacks
C36_Witness ==
    /\ nsnap = 1
    /\ saved # <<>>
    /\ \E l \in Lims : \E k \in DOMAIN cd[l]._cache :
          /\ saved[1] = _pickle_cooldown(cd[l])
          /\ Len(saved[1].cache[pickle_dumps(k)].next_reset) = 2
          /\ Len(cd[l]._cache[k]._next_reset) = 2
          /\ Len(cd[l]._cache[k]._timers) = 2
          /\ cd[l]._cache[k].current = 0

\* C33: the key a call stores is the key its admission reads.  While a
\* call stands between Cooldown.__call__ and __aenter__, the limiter's
\* _last_bucket is the key of that call's arguments, whatever other calls
\* are in progress; and the admission that follows is made, and reported,
\* under that key and changes no window of another key.
C33_KeyReadIsKeyStored ==
    /\ [](\A r \in BagToSet(running) :
            r.at = "keyed" =>
               cd[r.wrappers[r.pc].lim]._last_bucket =
                  get_bucket_of(cd[r.wrappers[r.pc].lim]._bucket, r.call))
    /\ [][\A r \in BagToSet(running) :
            AwaitAEnter(r) =>
               LET l == r.wrappers[r.pc].lim
                   k == get_bucket_of(cd[l]._bucket, r.call)
               IN  /\ last'.key = k
                   /\ \A x \in DOMAIN cd[l]._cache \ {k} :
                         cd'[l]._cache[x] = cd[l]._cache[x]
                   /\ last'.res = "granted" =>
                         cd'[l]._cache[k].current =
                            _get_cooldown_for_bucket(l, k).current - 1]_vars

\* A call admitted under one key is in its body while a call with other
\* arguments has stored its key and is about to enter
C33_Witness ==
    \E r \in BagToSet(running) : \E q \in BagToSet(running) :
        /\ r.at = "keyed"
        /\ q.at = "body"
        /\ get_bucket_of(cd[1]._bucket, q.call)
              # get_bucket_of(cd[1]._bucket, r.call)
        /\ get_bucket_of(cd[1]._bucket, q.call) \in DOMAIN cd[1]._cache
        /\ cd[1]._last_bucket = get_bucket_of(cd[1]._bucket, r.call)

\* C37: a static limiter restored from its own snapshot still replenishes
\* at the configured times of day.  Once a snapshot has been taken, every
\* admission the limiter grants puts on the queue, and schedules its
\* callback for, the next configured time of day after now; and every
\* callback that fires is due at a configured time of day.
C37_RestoredStaysStatic ==
    [][/\ \A l \in Lims : \A c \in Calls :
            (nsnap > 0 /\ StaticAdmit(l, c) /\ last'.res = "granted") =>
               LET k == get_bucket(c)
                   w == cd'[l]._cache[k]
                   reset == get_next_reset(cd[l]._reset_times, now)
               IN  /\ w._next_reset[Len(w._next_reset)] = Naive(reset)
                   /\ \E i \in DOMAIN w._timers : w._timers[i] = reset
       /\ \A l \in Lims : \A k \in Keys :
            FireCached(l, k) =>
               \E i \in DOMAIN cd[l]._reset_times :
                  Head(cd[l]._cache[k]._timers) % DayLen
                     = cd[l]._reset_times[i]]_vars

\* C38: a TriggerCooldown constructed without ids is registered under one
\* generated id per limiter and can be applied.  For every object
\* constructed, exactly one id of the registry is bound to its normal
\* limiter and exactly one to its trigger limiter, they are the ids the
\* object holds, applying the object raises nothing, and the limiters an
\* applied object resolves to are its own two.
C38_GeneratedIds ==
    /\ last.res # "KeyError"
    /\ \A s \in DOMAIN sites :
          LET t == sites[s].trigger
          IN  /\ Cardinality({ i \in DOMAIN refs : refs[i] = t.cooldown }) = 1
              /\ Cardinality({ i \in DOMAIN refs :
                                 refs[i] = t.trigger_cooldown }) = 1
              /\ t.cooldown_id \in DOMAIN refs
              /\ t.trigger_cooldown_id \in DOMAIN refs
              /\ refs[t.cooldown_id] = t.cooldown
              /\ refs[t.trigger_cooldown_id] = t.trigger_cooldown
              /\ sites[s].applied # <<>> =>
                    sites[s].applied = <<t.cooldown, t.trigger_cooldown>>

====
